---- MODULE Spec2Model ----
(***************************************************************************)
(* Model of the authnet-portal payment backend: the Authorize.Net gateway  *)
(* client (package authorizenet) and the HTTP handlers of main.go that     *)
(* call it, including the order-table update done after a capture.         *)
(*                                                                         *)
(* The repository holds three generations of the client:                   *)
(*   - the current one (src/unnamed/part_000 lines 1-685), which is the    *)
(*     one src/main.go compiles against;                                   *)
(*   - src/authorizenet/authorizenet.go, one step older;                   *)
(*   - the oldest one (src/unnamed/part_000 lines 687-1021).               *)
(* The handlers and the multi-call operations are modelled from the        *)
(* current generation; makeRequest is modelled for each generation.        *)
(***************************************************************************)
EXTENDS Integers, Sequences, FiniteSets, TLC

VARIABLES
    req,        \* per serving goroutine: the locals of the handler it runs
    db,         \* the order table "header": a sequence of rows
    gwStore,    \* number of customer profiles the gateway holds (ids 1..gwStore)
    served,     \* number of requests accepted so far
    config,     \* the configuration built by main()
    client,     \* the APIClient built by main(): credential and endpoint
    call        \* one client operation applied to one gateway reply

vars == <<req, db, gwStore, served, config, client, call>>

(***************************************************************************)
(* Bounds of the model.                                                    *)
(***************************************************************************)
MaxReqs == 2          \* requests accepted in one behaviour
MaxFullPages == 1     \* full id pages the gateway store can fill
MaxSmallStore == 2    \* profiles held by the gateway in the server runs
MaxChunks == 2        \* byte chunks in front of a response document

(***************************************************************************)
(* Program constants.                                                      *)
(***************************************************************************)
limit == 1000
firstOffset == 1

StatusOK == 200
StatusCreated == 201
StatusBadRequest == 400
StatusInternalServerError == 500

(***************************************************************************)
(* Response bodies of the gateway, as byte sequences.  A byte is a token    *)
(* [k |-> "byte"]; a complete, syntactically valid JSON text is one token   *)
(* [k |-> "json"] carrying the document it denotes.                         *)
(***************************************************************************)
NoMessages == <<>>

ZeroDoc ==
    [wrap |-> "", resultCode |-> "", message |-> NoMessages,
     id |-> "", ids |-> <<>>, profile |-> 0]

Byte(b) == [k |-> "byte", b |-> b, d |-> ZeroDoc]

Json(d) == [k |-> "json", b |-> "", d |-> d]

\* bytes.TrimSpace: the ASCII white space of Go (space, \n, \v shown here)
GoSpace == {"0x20", "0x0a", "0x0b"}

\* white space that encoding/json skips around a value
JsonSpace == {"0x20", "0x0a"}

bom == <<Byte("0xef"), Byte("0xbb"), Byte("0xbf")>>

IsGoSpace(t) == t.k = "byte" /\ t.b \in GoSpace

IsJsonSpace(t) == t.k = "byte" /\ t.b \in JsonSpace

RECURSIVE TrimLeft(_, _)
TrimLeft(s, sp) ==
    IF s # <<>> /\ Head(s).k = "byte" /\ Head(s).b \in sp
    THEN TrimLeft(Tail(s), sp) ELSE s

RECURSIVE TrimRight(_, _)
TrimRight(s, sp) ==
    IF s # <<>> /\ s[Len(s)].k = "byte" /\ s[Len(s)].b \in sp
    THEN TrimRight(SubSeq(s, 1, Len(s) - 1), sp) ELSE s

TrimSpace(s) == TrimRight(TrimLeft(s, GoSpace), GoSpace)

HasPrefix(s, p) == Len(s) >= Len(p) /\ SubSeq(s, 1, Len(p)) = p

TrimPrefix(s, p) == IF HasPrefix(s, p) THEN SubSeq(s, Len(p) + 1, Len(s)) ELSE s

\* json.Unmarshal's syntax check: one JSON value, JSON white space around it
JsonCore(data) == TrimRight(TrimLeft(data, JsonSpace), JsonSpace)

JsonValid(data) == Len(JsonCore(data)) = 1 /\ JsonCore(data)[1].k = "json"

(***************************************************************************)
(* Decoding of a valid document into the response struct of an operation.  *)
(* Every response struct but one is read at the top level of the document;  *)
(* GetAllCustomerProfileIds reads it under the key                          *)
(* "getCustomerProfileIdsResponse".  Keys the struct does not name are      *)
(* ignored and fields the document does not give stay zero.                 *)
(***************************************************************************)
TopLevel == ""

Decode(data, wrap) ==
    LET d == JsonCore(data)[1].d
    IN  IF d.wrap = wrap THEN [d EXCEPT !.wrap = ""] ELSE ZeroDoc

NoErr == <<>>

\* a faulty variant: an empty body is handed to the decoder like any other
makeRequest_strict(reply, wrap) ==
    IF reply.fail = "send"
    THEN [err |-> <<"failed to send request: ", "transport">>, resp |-> ZeroDoc]
    ELSE IF reply.fail = "read"
    THEN [err |-> <<"failed to read response: ", "transport">>, resp |-> ZeroDoc]
    ELSE IF JsonValid(TrimPrefix(TrimSpace(reply.body), bom))
    THEN [err |-> NoErr,
          resp |-> Decode(TrimPrefix(TrimSpace(reply.body), bom), wrap)]
    ELSE [err |-> <<"failed to unmarshal response: ", "syntax">>, resp |-> ZeroDoc]

\* part_000:37-76, the current makeRequest
makeRequest(reply, wrap) ==
    IF reply.fail = "send"
    THEN [err |-> <<"failed to send request: ", "transport">>, resp |-> ZeroDoc]
    ELSE IF reply.fail = "read"
    THEN [err |-> <<"failed to read response: ", "transport">>, resp |-> ZeroDoc]
    ELSE LET trimmedBody == TrimSpace(reply.body)
         IN  IF Len(trimmedBody) > 0
             THEN LET bodyToParse == TrimPrefix(trimmedBody, bom)
                  IN  IF JsonValid(bodyToParse)
                      THEN [err |-> NoErr, resp |-> Decode(bodyToParse, wrap)]
                      ELSE [err |-> <<"failed to unmarshal response: ", "syntax">>,
                            resp |-> ZeroDoc]
             ELSE [err |-> NoErr, resp |-> ZeroDoc]

\* authorizenet.go:37-68, makeRequest one generation back
makeRequest_pkg(reply, wrap) ==
    IF reply.fail = "send"
    THEN [err |-> <<"failed to send request: ", "transport">>, resp |-> ZeroDoc]
    ELSE IF reply.fail = "read"
    THEN [err |-> <<"failed to read response: ", "transport">>, resp |-> ZeroDoc]
    ELSE LET body == TrimPrefix(reply.body, bom)
         IN  IF JsonValid(body)
             THEN [err |-> NoErr, resp |-> Decode(body, wrap)]
             ELSE [err |-> <<"failed to unmarshal response: ", "syntax">>,
                   resp |-> ZeroDoc]

\* part_000:722-751, the oldest makeRequest
makeRequest_old(reply, wrap) ==
    IF reply.fail = "send"
    THEN [err |-> <<"failed to send request: ", "transport">>, resp |-> ZeroDoc]
    ELSE IF reply.fail = "read"
    THEN [err |-> <<"failed to read response: ", "transport">>, resp |-> ZeroDoc]
    ELSE IF JsonValid(reply.body)
         THEN [err |-> NoErr, resp |-> Decode(reply.body, wrap)]
         ELSE [err |-> <<"failed to unmarshal response: ", "syntax">>,
               resp |-> ZeroDoc]

(***************************************************************************)
(* Results of a client operation.  sent is the envelope handed to           *)
(* makeRequest; kind is "ok" (nil error), "error" (non-nil error) or        *)
(* "panic" (run-time fault).                                                *)
(***************************************************************************)
NilVal == [id |-> "", ids |-> <<>>, profile |-> 0, profiles |-> <<>>]

Ok(sent, val) == [sent |-> sent, kind |-> "ok", err |-> NoErr, val |-> val]

Fail(sent, e) == [sent |-> sent, kind |-> "error", err |-> e, val |-> NilVal]

Fault(sent) == [sent |-> sent, kind |-> "panic", err |-> NoErr, val |-> NilVal]

\* a faulty variant: the request goes out without the credential
Envelope_anonymous(name, c, fields) ==
    [name |-> name, merchantAuthentication |-> [Name |-> "", TransactionKey |-> ""],
     endpoint |-> c.Endpoint, fields |-> fields]

Envelope(name, c, fields) ==
    [name |-> name, merchantAuthentication |-> c.Auth, endpoint |-> c.Endpoint,
     fields |-> fields]

\* part_000:27-35
NewAPIClient(apiLoginID, transactionKey, endpoint) ==
    [Auth |-> [Name |-> apiLoginID, TransactionKey |-> transactionKey],
     Endpoint |-> endpoint]

(***************************************************************************)
(* The operations of the current client (part_000:1-685).  reply is what    *)
(* the gateway answers to the one request the operation sends.              *)
(***************************************************************************)
CreateCustomerProfile(c, profile, validationMode, reply) ==
    LET requestWrapper ==
            Envelope("createCustomerProfileRequest", c,
                     [profile |-> profile, validationMode |-> validationMode])
        r == makeRequest(reply, TopLevel)
        response == r.resp
    IN  IF r.err # NoErr THEN Fail(requestWrapper, r.err)
        ELSE IF response.resultCode # "Ok"
        THEN IF Len(response.message) > 0
             THEN Fail(requestWrapper,
                       <<"API error ", response.message[1].text, " ",
                         response.message[1].code>>)
             ELSE Fail(requestWrapper,
                       <<"API error: Request failed with ResultCode '",
                         response.resultCode, "' but no message was provided">>)
        ELSE Ok(requestWrapper, [NilVal EXCEPT !.id = response.id])

\* a faulty variant: once a request has fetched a profile, later calls are
\* answered from a cache that holds no profile
GetCustomerProfile_cached(c, profileID, reply) ==
    LET requestWrapper ==
            Envelope("getCustomerProfileRequest", c,
                     [customerProfileId |-> profileID])
        r == makeRequest(reply, TopLevel)
    IN  IF \E t \in DOMAIN req :
               /\ req[t].res.kind = "ok"
               /\ req[t].res.sent.name = "getCustomerProfileRequest"
        THEN Ok(requestWrapper, NilVal)
        ELSE IF r.err # NoErr THEN Fail(requestWrapper, r.err)
        ELSE IF r.resp.resultCode # "Ok"
        THEN Fail(requestWrapper, <<"API error: ", "cached">>)
        ELSE Ok(requestWrapper, [NilVal EXCEPT !.profile = r.resp.profile])

GetCustomerProfile(c, profileID, reply) ==
    LET requestWrapper ==
            Envelope("getCustomerProfileRequest", c,
                     [customerProfileId |-> profileID])
        r == makeRequest(reply, TopLevel)
        response == r.resp
    IN  IF r.err # NoErr THEN Fail(requestWrapper, r.err)
        ELSE IF response.resultCode # "Ok"
        THEN IF Len(response.message) > 0
             THEN Fail(requestWrapper, <<"API error: ", response.message[1].text>>)
             ELSE Fail(requestWrapper,
                       <<"API error: unknown error from Authorize.Net">>)
        ELSE Ok(requestWrapper, [NilVal EXCEPT !.profile = response.profile])

\* one turn of the loop of GetAllCustomerProfileIds, part_000:205-231
GetCustomerProfileIdsPage(c, pageLimit, offset, reply) ==
    LET requestWrapper ==
            Envelope("getCustomerProfileIdsRequest", c,
                     [paging |-> [limit |-> pageLimit, offset |-> offset]])
        r == makeRequest(reply, "getCustomerProfileIdsResponse")
        response == r.resp
    IN  IF r.err # NoErr
        THEN Fail(requestWrapper, <<"failed to make API request: ">> \o r.err)
        ELSE IF response.resultCode # "Ok"
        THEN IF Len(response.message) > 0
             THEN Fail(requestWrapper, <<"API error: ", response.message[1].text>>)
             ELSE Fail(requestWrapper, <<"API error: unknown error">>)
        ELSE Ok(requestWrapper, [NilVal EXCEPT !.ids = response.ids])

ChargeCustomerProfile(c, profileID, paymentProfileID, amount, invoiceNumber, description, transactionType, reply) ==
    LET finalTransactionType ==
            IF transactionType = "authOnlyTransaction"
            THEN "authOnlyTransaction" ELSE "authCaptureTransaction"
        order ==
            IF invoiceNumber # ""
            THEN <<[invoiceNumber |-> invoiceNumber, description |-> description]>>
            ELSE <<>>
        request ==
            Envelope("createTransactionRequest", c,
                     [transactionType |-> finalTransactionType, amount |-> amount,
                      customerProfileId |-> profileID,
                      paymentProfileId |-> paymentProfileID,
                      order |-> order, refTransId |-> ""])
        r == makeRequest(reply, TopLevel)
        response == r.resp
    IN  IF r.err # NoErr THEN Fail(request, r.err)
        ELSE IF response.resultCode # "Ok"
        THEN IF Len(response.message) > 0
             THEN Fail(request, <<"API error: ", response.message[1].text>>)
             ELSE Fail(request, <<"API error: unknown error">>)
        ELSE Ok(request, [NilVal EXCEPT !.id = response.id])

AuthorizeCustomerProfile(c, profileID, paymentProfileID, amount, reply) ==
    LET request ==
            Envelope("createTransactionRequest", c,
                     [transactionType |-> "authOnlyTransaction", amount |-> amount,
                      customerProfileId |-> profileID,
                      paymentProfileId |-> paymentProfileID,
                      order |-> <<>>, refTransId |-> ""])
        r == makeRequest(reply, TopLevel)
        response == r.resp
    IN  IF r.err # NoErr THEN Fail(request, r.err)
        ELSE IF response.resultCode # "Ok"
        THEN IF Len(response.message) > 0
             THEN Fail(request, <<"API error: ", response.message[1].text>>)
             ELSE Fail(request, <<"API error: unknown error">>)
        ELSE Ok(request, [NilVal EXCEPT !.id = response.id])

CapturePriorAuthTransaction(c, refTransId, amount, reply) ==
    LET requestWrapper ==
            Envelope("createTransactionRequest", c,
                     [transactionType |-> "priorAuthCaptureTransaction",
                      amount |-> amount, customerProfileId |-> "",
                      paymentProfileId |-> "", order |-> <<>>,
                      refTransId |-> refTransId])
        r == makeRequest(reply, TopLevel)
        response == r.resp
    IN  IF r.err # NoErr THEN Fail(requestWrapper, r.err)
        ELSE IF response.resultCode # "Ok"
        THEN IF Len(response.message) > 0
             THEN Fail(requestWrapper, <<"API error: ", response.message[1].text>>)
             ELSE Fail(requestWrapper, <<"API error: unknown error">>)
        ELSE Ok(requestWrapper, [NilVal EXCEPT !.id = response.id])

UpdateCustomerProfile(c, profileID, email, description, reply) ==
    LET requestWrapper ==
            Envelope("updateCustomerProfileRequest", c,
                     [customerProfileId |-> profileID, email |-> email,
                      description |-> description])
        r == makeRequest(reply, TopLevel)
        response == r.resp
    IN  IF r.err # NoErr THEN Fail(requestWrapper, r.err)
        ELSE IF response.resultCode # "Ok"
        THEN IF Len(response.message) > 0
             THEN Fail(requestWrapper, <<"API error: ", response.message[1].text>>)
             ELSE Fail(requestWrapper, <<"API error: unknown error">>)
        ELSE Ok(requestWrapper, NilVal)

AddShippingAddress(c, profileID, address, reply) ==
    LET requestWrapper ==
            Envelope("createCustomerShippingAddressRequest", c,
                     [customerProfileId |-> profileID, address |-> address])
        r == makeRequest(reply, TopLevel)
        response == r.resp
    IN  IF r.err # NoErr THEN Fail(requestWrapper, r.err)
        ELSE IF response.resultCode # "Ok"
        THEN IF Len(response.message) > 0
             THEN Fail(requestWrapper,
                       <<"API error: ", response.message[1].text, " (Code: ",
                         response.message[1].code, ")">>)
             ELSE Fail(requestWrapper,
                       <<"API error: add shipping address failed with ResultCode '",
                         response.resultCode, "'">>)
        ELSE Ok(requestWrapper, [NilVal EXCEPT !.id = response.id])

\* part_000:557-579: the response is decoded into an empty interface and
\* its resultCode is never read
DeleteShippingAddress(c, profileID, addressID, reply) ==
    LET requestWrapper ==
            Envelope("deleteCustomerShippingAddressRequest", c,
                     [customerProfileId |-> profileID,
                      customerAddressId |-> addressID])
        r == makeRequest(reply, TopLevel)
    IN  IF r.err # NoErr THEN Fail(requestWrapper, r.err)
        ELSE Ok(requestWrapper, NilVal)

UpdateBillingAddress(c, customerprofileID, paymentProfileID, address, reply) ==
    LET requestWrapper ==
            Envelope("updateCustomerPaymentProfileRequest", c,
                     [customerProfileId |-> customerprofileID,
                      customerPaymentProfileId |-> paymentProfileID,
                      billTo |-> address])
        r == makeRequest(reply, TopLevel)
        response == r.resp
    IN  IF r.err # NoErr THEN Fail(requestWrapper, r.err)
        ELSE IF response.resultCode # "Ok"
        THEN IF Len(response.message) > 0
             THEN Fail(requestWrapper,
                       <<"API error: ", response.message[1].text, " (Code: ",
                         response.message[1].code, ")">>)
             ELSE Fail(requestWrapper,
                       <<"API error: update billing failed with ResultCode '",
                         response.resultCode, "'">>)
        ELSE Ok(requestWrapper, NilVal)

AddPaymentProfile(c, profileID, creditCard, reply) ==
    LET requestWrapper ==
            Envelope("createCustomerPaymentProfileRequest", c,
                     [customerProfileId |-> profileID, creditCard |-> creditCard])
        r == makeRequest(reply, TopLevel)
        response == r.resp
    IN  IF r.err # NoErr THEN Fail(requestWrapper, r.err)
        ELSE IF response.resultCode # "Ok"
        THEN IF Len(response.message) > 0
             THEN Fail(requestWrapper, <<"API error: ", response.message[1].text>>)
             ELSE Fail(requestWrapper, <<"API error: unknown error">>)
        ELSE Ok(requestWrapper, [NilVal EXCEPT !.id = response.id])

(***************************************************************************)
(* Client operations that main.go calls and that no client file under src/ *)
(* defines.  They follow the contract the specification gives for every     *)
(* operation: one request, success only on the success marker, the first    *)
(* message's text otherwise.                                                *)
(***************************************************************************)
UpdateCustomerPaymentProfile(c, customerProfileId, paymentProfileId, creditCard, billTo, reply) ==
    LET requestWrapper ==
            Envelope("updateCustomerPaymentProfileRequest", c,
                     [customerProfileId |-> customerProfileId,
                      customerPaymentProfileId |-> paymentProfileId,
                      creditCard |-> creditCard, billTo |-> billTo])
        r == makeRequest(reply, TopLevel)
        response == r.resp
    IN  IF r.err # NoErr THEN Fail(requestWrapper, r.err)
        ELSE IF response.resultCode # "Ok"
        THEN IF Len(response.message) > 0
             THEN Fail(requestWrapper, <<"API error: ", response.message[1].text>>)
             ELSE Fail(requestWrapper, <<"API error: unknown error">>)
        ELSE Ok(requestWrapper, NilVal)

UpdatePaymentProfile(c, customerProfileId, paymentProfile, reply) ==
    LET requestWrapper ==
            Envelope("updateCustomerPaymentProfileRequest", c,
                     [customerProfileId |-> customerProfileId,
                      paymentProfile |-> paymentProfile])
        r == makeRequest(reply, TopLevel)
        response == r.resp
    IN  IF r.err # NoErr THEN Fail(requestWrapper, r.err)
        ELSE IF response.resultCode # "Ok"
        THEN IF Len(response.message) > 0
             THEN Fail(requestWrapper, <<"API error: ", response.message[1].text>>)
             ELSE Fail(requestWrapper, <<"API error: unknown error">>)
        ELSE Ok(requestWrapper, NilVal)

DeletePaymentProfile(c, customerProfileId, paymentProfileId, reply) ==
    LET requestWrapper ==
            Envelope("deleteCustomerPaymentProfileRequest", c,
                     [customerProfileId |-> customerProfileId,
                      customerPaymentProfileId |-> paymentProfileId])
        r == makeRequest(reply, TopLevel)
        response == r.resp
    IN  IF r.err # NoErr THEN Fail(requestWrapper, r.err)
        ELSE IF response.resultCode # "Ok"
        THEN IF Len(response.message) > 0
             THEN Fail(requestWrapper, <<"API error: ", response.message[1].text>>)
             ELSE Fail(requestWrapper, <<"API error: unknown error">>)
        ELSE Ok(requestWrapper, NilVal)

(***************************************************************************)
(* main(): configuration and the route table (main.go:40-119).              *)
(***************************************************************************)
SandboxEndpoint == "https://apitest.authorize.net/xml/v1/request.api"

ProductionEndpoint == "https://api.authorize.net/xml/v1/request.api"

\* a faulty variant: every value but "sandbox" selects production
main_config_liveByDefault(authnetEnv) ==
    IF authnetEnv # "sandbox"
    THEN [LoginID |-> "login", TransactionKey |-> "key",
          ValidationMode |-> "liveMode", Endpoint |-> ProductionEndpoint]
    ELSE [LoginID |-> "login", TransactionKey |-> "key",
          ValidationMode |-> "testMode", Endpoint |-> SandboxEndpoint]

main_config(authnetEnv) ==
    IF authnetEnv = "production"
    THEN [LoginID |-> "login", TransactionKey |-> "key",
          ValidationMode |-> "liveMode", Endpoint |-> ProductionEndpoint]
    ELSE [LoginID |-> "login", TransactionKey |-> "key",
          ValidationMode |-> "testMode", Endpoint |-> SandboxEndpoint]

main_client(authnetEnv) ==
    LET cfg == main_config(authnetEnv)
    IN  NewAPIClient(cfg.LoginID, cfg.TransactionKey, cfg.Endpoint)

\* r.HandleFunc(...).Methods(...) in registration order; a path is its
\* shape, the names are those of its {variables}
Routes ==
    << [path |-> "/customer-profiles", names |-> <<>>, method |-> "POST",
        handler |-> "createCustomerProfileHandler"],
       [path |-> "/customer-profiles/{}", names |-> <<"id">>, method |-> "GET",
        handler |-> "getCustomerProfileHandler"],
       [path |-> "/customer-profiles", names |-> <<>>, method |-> "GET",
        handler |-> "getAllCustomerProfilesHandler"],
       [path |-> "/customer-profiles/{}", names |-> <<"id">>, method |-> "PUT",
        handler |-> "updateCustomerProfileHandler"],
       [path |-> "/customer-profiles/{}/shipping-addresses", names |-> <<"id">>,
        method |-> "POST", handler |-> "addShippingAddressHandler"],
       [path |-> "/customer-profiles/{}/shipping-addresses/{}",
        names |-> <<"id", "addressId">>, method |-> "DELETE",
        handler |-> "deleteShippingAddressHandler"],
       [path |-> "/customer-profiles/{}/payment-profiles", names |-> <<"id">>,
        method |-> "POST", handler |-> "addPaymentProfileHandler"],
       [path |-> "/customer-profiles/{}/payment-profiles/{}",
        names |-> <<"id", "paymentProfileId">>, method |-> "PUT",
        handler |-> "updateBillingAddressHandler"],
       [path |-> "/customer-profiles/{}/payment-profiles/{}",
        names |-> <<"customerProfileId", "paymentProfileId">>, method |-> "PUT",
        handler |-> "updateCustomerPaymentProfileHandler"],
       [path |-> "/customer-profiles/{}/payment-profiles/{}",
        names |-> <<"customerProfileId", "paymentProfileId">>, method |-> "DELETE",
        handler |-> "deletePaymentProfileHandler"],
       [path |-> "/update-payment-profile", names |-> <<>>, method |-> "PUT",
        handler |-> "updatePaymentProfileHandler"],
       [path |-> "/transactions", names |-> <<>>, method |-> "POST",
        handler |-> "chargeCustomerProfileHandler"],
       [path |-> "/transactions/authorize", names |-> <<>>, method |-> "POST",
        handler |-> "authorizeCustomerProfileHandler"],
       [path |-> "/transactions/capture", names |-> <<>>, method |-> "POST",
        handler |-> "capturePriorAuthTransactionHandler"] >>

Matches(i, method, path) == Routes[i].path = path /\ Routes[i].method = method

Routable(method, path) == \E i \in 1..Len(Routes) : Matches(i, method, path)

\* gorilla/mux serves the first registered route that matches
Dispatch(method, path) ==
    LET i == CHOOSE k \in 1..Len(Routes) :
                 /\ Matches(k, method, path)
                 /\ \A j \in 1..(k - 1) : ~Matches(j, method, path)
    IN  Routes[i]

\* mux.Vars(r): the value of a path variable, "" when the route has none
\* of that name
Var(route, segs, name) ==
    IF \E i \in 1..Len(route.names) : route.names[i] = name
    THEN segs[CHOOSE i \in 1..Len(route.names) : route.names[i] = name]
    ELSE ""

(***************************************************************************)
(* HTTP responses.                                                          *)
(***************************************************************************)
NoApi ==
    [is_success |-> FALSE, message |-> <<>>, action |-> "",
     transaction |-> NilVal, hasTransaction |-> FALSE]

NoResp == [status |-> 0, kind |-> "none", text |-> <<>>, api |-> NoApi,
           key |-> "", data |-> NilVal]

\* http.Error(w, text, code)
HttpError(text, code) ==
    [status |-> code, kind |-> "text", text |-> text, api |-> NoApi,
     key |-> "", data |-> NilVal]

\* w.WriteHeader(code); json.NewEncoder(w).Encode(ApiResponse{...})
ApiResponse(code, api) ==
    [status |-> code, kind |-> "api", text |-> <<>>, api |-> api,
     key |-> "", data |-> NilVal]

\* w.WriteHeader(code); json.NewEncoder(w).Encode(map[string]string{key: value})
MapResponse(code, key, value) ==
    [status |-> code, kind |-> "map", text |-> <<>>, api |-> NoApi,
     key |-> key, data |-> [NilVal EXCEPT !.id = value]]

\* json.NewEncoder(w).Encode(v) of a profile or a list of profiles
DataResponse(code, val) ==
    [status |-> code, kind |-> "data", text |-> <<>>, api |-> NoApi,
     key |-> "", data |-> val]

\* w.WriteHeader(code) and nothing else
EmptyResponse(code) ==
    [status |-> code, kind |-> "empty", text |-> <<>>, api |-> NoApi,
     key |-> "", data |-> NilVal]

NoEnvelope ==
    [name |-> "", merchantAuthentication |-> [Name |-> "", TransactionKey |-> ""],
     endpoint |-> "", fields |-> <<>>]

NoRes == [sent |-> NoEnvelope, kind |-> "none", err |-> NoErr, val |-> NilVal]

NoStmt == <<>>

\* what a handler did: whether it reached its client call, the call's
\* result, the statements it ran on the database, and what it answered
Out(called, res, stmts, resp) ==
    [called |-> called, res |-> res, stmts |-> stmts, resp |-> resp]

Rejected(resp) == Out(FALSE, NoRes, NoStmt, resp)

(***************************************************************************)
(* The handlers of main.go.  q holds the request: the route that matched,   *)
(* the values of its path variables (segs) and the decoded body (in); reply *)
(* is the gateway's answer to the handler's client call, dbErr whether      *)
(* db.Exec returns an error.                                                *)
(***************************************************************************)
InvalidBody == HttpError(<<"Invalid request body">>, StatusBadRequest)

ServerError(res) == HttpError(res.err, StatusInternalServerError)

(***************************************************************************)
(* What a handler does with the result res of its client call.             *)
(***************************************************************************)
\* http.Error(w, err.Error(), 500) on an error, resp otherwise
Answer(res, resp) ==
    Out(TRUE, res, NoStmt, IF res.kind # "ok" THEN ServerError(res) ELSE resp)

\* ... or the id the client returned, under key
MapAnswer(res, code, key) == Answer(res, MapResponse(code, key, res.val.id))

\* ... or what the client returned, encoded
DataAnswer(res, code) == Answer(res, DataResponse(code, res.val))

\* main.go:264-287 and 306-323: an ApiResponse either way
ApiAnswer(res, message, action) ==
    IF res.kind # "ok"
    THEN Out(TRUE, res, NoStmt,
             ApiResponse(StatusInternalServerError,
                         [NoApi EXCEPT !.message = res.err]))
    ELSE Out(TRUE, res, NoStmt,
             ApiResponse(StatusCreated,
                         [is_success |-> TRUE, message |-> message,
                          action |-> action, transaction |-> res.val,
                          hasTransaction |-> TRUE]))

createCustomerProfileHandler(c, cfg, q, reply) ==
    IF ~q.in.bodyOk THEN Rejected(InvalidBody)
    ELSE LET validationMode ==
                 IF q.in.validationMode # "" THEN q.in.validationMode
                 ELSE cfg.ValidationMode
         IN  MapAnswer(CreateCustomerProfile(c, "profile", validationMode, reply),
                       StatusCreated, "customerProfileId")

getCustomerProfileHandler(c, cfg, q, reply) ==
    LET id == Var(q.route, q.segs, "id")
    IN  IF id = 0
        THEN Rejected(HttpError(<<"Missing customer profile ID">>, StatusBadRequest))
        ELSE DataAnswer(GetCustomerProfile(c, id, reply), StatusOK)

\* main.go:230-239, given what GetAllCustomerProfiles returned
getAllCustomerProfilesHandler(res) ==
    IF res.kind # "ok" THEN ServerError(res)
    ELSE DataResponse(StatusOK, res.val)

\* main.go:260 passes req.TransactionType where ChargeCustomerProfile takes
\* description, and req.Description where it takes transactionType
chargeCustomerProfileHandler(c, cfg, q, reply) ==
    IF ~q.in.bodyOk THEN Rejected(InvalidBody)
    ELSE ApiAnswer(ChargeCustomerProfile(c, q.in.profileId, q.in.paymentProfileId,
                                         q.in.amount, q.in.invoiceNumber,
                                         q.in.transactionType, q.in.description,
                                         reply),
                   <<"Transaction successful.">>,
                   IF q.in.transactionType = "authOnlyTransaction"
                   THEN "authOnlyTransaction" ELSE "authCaptureTransaction")

authorizeCustomerProfileHandler(c, cfg, q, reply) ==
    IF ~q.in.bodyOk THEN Rejected(InvalidBody)
    ELSE IF q.in.profileId = "" \/ q.in.paymentProfileId = "" \/ q.in.amount = ""
    THEN Rejected(HttpError(
             <<"Missing required fields: profileId, paymentProfileId, or amount">>,
             StatusBadRequest))
    ELSE ApiAnswer(AuthorizeCustomerProfile(c, q.in.profileId,
                                            q.in.paymentProfileId, q.in.amount,
                                            reply),
                   <<"Transaction authorized successfully.">>, "AUTH_ONLY")

\* json.Marshal of an ApiResponse, and string(bytes)
Marshal(api) == [json |-> api]

\* a faulty variant: the answer to a failed write-back names no payment
CriticalMessage_generic == <<"Failed to process transaction response internally.">>

\* a faulty variant: a failed write-back is answered like a refused capture
CriticalMessage_asApiError == <<"API error: ", "The transaction was unsuccessful.">>

CriticalMessage ==
    <<"CRITICAL:", "Payment was processed", " but ",
      "failed to update order record.">>

\* main.go:353-358: the envelope that is answered and written back
CaptureResponse(res) ==
    [is_success |-> TRUE,
     message |-> <<"Previously authorized transaction captured successfully.">>,
     action |-> "priorAuthCaptureTransaction",
     transaction |-> res.val, hasTransaction |-> TRUE]

\* a faulty variant: the statement looks for the new id, not for refTransId
CaptureStatement_byNewId(q, res) ==
    [sql |-> "UPDATE header", results |-> Marshal(CaptureResponse(res)),
     transactionnum |-> res.val.id, where |-> res.val.id]

\* main.go:369-380: the statement and its three arguments
CaptureStatement(q, res) ==
    [sql |-> "UPDATE header", results |-> Marshal(CaptureResponse(res)),
     transactionnum |-> res.val.id, where |-> q.in.refTransId]

\* a faulty variant: the statement is run whatever the gateway answered
CaptureAnswer_eager(q, res, dbErr) ==
    IF dbErr \/ res.kind # "ok"
    THEN Out(TRUE, res, <<[CaptureStatement(q, res) EXCEPT !.transactionnum = "N1"]>>,
             ApiResponse(StatusInternalServerError,
                         [NoApi EXCEPT !.message = CriticalMessage]))
    ELSE Out(TRUE, res, <<CaptureStatement(q, res)>>,
             [ApiResponse(StatusCreated, CaptureResponse(res))
                  EXCEPT !.kind = "bytes"])

\* main.go:341-395: what the capture handler does once the client returned
CaptureAnswer(q, res, dbErr) ==
    IF res.kind # "ok"
    THEN Out(TRUE, res, NoStmt,
             ApiResponse(StatusInternalServerError,
                         [NoApi EXCEPT !.message = res.err]))
    ELSE IF dbErr
    THEN Out(TRUE, res, <<CaptureStatement(q, res)>>,
             ApiResponse(StatusInternalServerError,
                         [NoApi EXCEPT !.message = CriticalMessage]))
    ELSE Out(TRUE, res, <<CaptureStatement(q, res)>>,
             [ApiResponse(StatusCreated, Marshal(CaptureResponse(res)).json)
                  EXCEPT !.kind = "bytes"])

capturePriorAuthTransactionHandler(c, cfg, q, reply, dbErr) ==
    IF ~q.in.bodyOk THEN Rejected(InvalidBody)
    ELSE IF q.in.refTransId = ""
    THEN Rejected(HttpError(<<"V2 Error: Missing required field: refTransId">>,
                            StatusBadRequest))
    ELSE CaptureAnswer(q, CapturePriorAuthTransaction(c, q.in.refTransId,
                                                      q.in.amount, reply),
                       dbErr)

updateCustomerProfileHandler(c, cfg, q, reply) ==
    LET id == Var(q.route, q.segs, "id")
    IN  IF id = 0
        THEN Rejected(HttpError(<<"Missing customer profile ID">>, StatusBadRequest))
        ELSE IF ~q.in.bodyOk THEN Rejected(InvalidBody)
        ELSE Answer(UpdateCustomerProfile(c, id, "email", q.in.description, reply),
                    EmptyResponse(StatusOK))

updateCustomerPaymentProfileHandler(c, cfg, q, reply) ==
    LET customerProfileId == Var(q.route, q.segs, "customerProfileId")
        paymentProfileId == Var(q.route, q.segs, "paymentProfileId")
    IN  IF ~q.in.bodyOk THEN Rejected(InvalidBody)
        ELSE Answer(UpdateCustomerPaymentProfile(c, customerProfileId,
                                                 paymentProfileId, "card",
                                                 "billTo", reply),
                    MapResponse(StatusOK, "message",
                                "Payment profile updated successfully"))

addShippingAddressHandler(c, cfg, q, reply) ==
    LET id == Var(q.route, q.segs, "id")
    IN  IF id = 0
        THEN Rejected(HttpError(<<"Missing customer profile ID in URL path">>,
                                StatusBadRequest))
        ELSE IF ~q.in.bodyOk THEN Rejected(InvalidBody)
        ELSE MapAnswer(AddShippingAddress(c, id, "address", reply),
                       StatusCreated, "customerAddressId")

deleteShippingAddressHandler(c, cfg, q, reply) ==
    LET profileId == Var(q.route, q.segs, "id")
        addressId == Var(q.route, q.segs, "addressId")
    IN  IF profileId = 0 \/ addressId = 0
        THEN Rejected(HttpError(
                 <<"Missing customer or address profile ID in URL">>,
                 StatusBadRequest))
        ELSE Answer(DeleteShippingAddress(c, profileId, addressId, reply),
                    EmptyResponse(StatusOK))

addPaymentProfileHandler(c, cfg, q, reply) ==
    LET id == Var(q.route, q.segs, "id")
    IN  IF id = 0
        THEN Rejected(HttpError(<<"Missing customer profile ID">>, StatusBadRequest))
        ELSE IF ~q.in.bodyOk THEN Rejected(InvalidBody)
        ELSE MapAnswer(AddPaymentProfile(c, id, "card", reply),
                       StatusCreated, "customerPaymentProfileId")

updatePaymentProfileHandler(c, cfg, q, reply) ==
    IF ~q.in.bodyOk THEN Rejected(InvalidBody)
    ELSE Answer(UpdatePaymentProfile(c, q.in.profileId,
                                     [billTo |-> "billTo", creditCard |-> "card",
                                      customerPaymentProfileId |->
                                          q.in.paymentProfileId],
                                     reply),
                MapResponse(StatusOK, "message",
                            "Payment profile updated successfully"))

deletePaymentProfileHandler(c, cfg, q, reply) ==
    LET customerProfileId == Var(q.route, q.segs, "customerProfileId")
        paymentProfileId == Var(q.route, q.segs, "paymentProfileId")
    IN  IF customerProfileId = 0 \/ paymentProfileId = 0
        THEN Rejected(HttpError(
                 <<"Missing customerProfileId or paymentProfileId">>,
                 StatusBadRequest))
        ELSE Answer(DeletePaymentProfile(c, customerProfileId, paymentProfileId,
                                         reply),
                    MapResponse(StatusOK, "message",
                                "Payment profile deleted successfully"))

updateBillingAddressHandler(c, cfg, q, reply) ==
    LET customerProfileId == Var(q.route, q.segs, "id")
        paymentProfileId == Var(q.route, q.segs, "paymentProfileId")
    IN  IF customerProfileId = 0 \/ paymentProfileId = 0
        THEN Rejected(HttpError(
                 <<"Missing customer or payment profile ID in URL">>,
                 StatusBadRequest))
        ELSE IF ~q.in.bodyOk THEN Rejected(InvalidBody)
        ELSE Answer(UpdateBillingAddress(c, customerProfileId, paymentProfileId,
                                         "address", reply),
                    EmptyResponse(StatusOK))

\* the handler a route names, run on one request
Handle(c, cfg, q, reply, dbErr) ==
    CASE q.route.handler = "createCustomerProfileHandler" ->
             createCustomerProfileHandler(c, cfg, q, reply)
      [] q.route.handler = "getCustomerProfileHandler" ->
             getCustomerProfileHandler(c, cfg, q, reply)
      [] q.route.handler = "chargeCustomerProfileHandler" ->
             chargeCustomerProfileHandler(c, cfg, q, reply)
      [] q.route.handler = "authorizeCustomerProfileHandler" ->
             authorizeCustomerProfileHandler(c, cfg, q, reply)
      [] q.route.handler = "capturePriorAuthTransactionHandler" ->
             capturePriorAuthTransactionHandler(c, cfg, q, reply, dbErr)
      [] q.route.handler = "updateCustomerProfileHandler" ->
             updateCustomerProfileHandler(c, cfg, q, reply)
      [] q.route.handler = "updateCustomerPaymentProfileHandler" ->
             updateCustomerPaymentProfileHandler(c, cfg, q, reply)
      [] q.route.handler = "addShippingAddressHandler" ->
             addShippingAddressHandler(c, cfg, q, reply)
      [] q.route.handler = "deleteShippingAddressHandler" ->
             deleteShippingAddressHandler(c, cfg, q, reply)
      [] q.route.handler = "addPaymentProfileHandler" ->
             addPaymentProfileHandler(c, cfg, q, reply)
      [] q.route.handler = "updatePaymentProfileHandler" ->
             updatePaymentProfileHandler(c, cfg, q, reply)
      [] q.route.handler = "deletePaymentProfileHandler" ->
             deletePaymentProfileHandler(c, cfg, q, reply)
      [] q.route.handler = "updateBillingAddressHandler" ->
             updateBillingAddressHandler(c, cfg, q, reply)

(***************************************************************************)
(* The multi-call operations, one turn of their loop at a time.  res is     *)
(* what the turn's request returned.                                        *)
(***************************************************************************)
\* a faulty variant: the loop stops at a full page and goes on at a short one
GetAllCustomerProfileIds_fullStops(allProfileIds, offset, res) ==
    IF res.kind # "ok"
    THEN [state |-> "failed", res |-> res, allProfileIds |-> <<>>,
          offset |-> offset]
    ELSE IF Len(res.val.ids) = limit \/ Len(res.val.ids) = 0
    THEN [state |-> "done", res |-> res,
          allProfileIds |-> allProfileIds \o res.val.ids, offset |-> offset]
    ELSE [state |-> "more", res |-> res,
          allProfileIds |-> allProfileIds \o res.val.ids,
          offset |-> offset + limit]

\* a faulty variant: a page that is full ends the loop as a short one does
GetAllCustomerProfileIds_atMost(allProfileIds, offset, res) ==
    IF res.kind # "ok"
    THEN [state |-> "failed", res |-> res, allProfileIds |-> <<>>,
          offset |-> offset]
    ELSE [state |-> "done", res |-> res,
          allProfileIds |-> allProfileIds \o res.val.ids, offset |-> offset]

\* a faulty variant: a failing page returns the ids gathered before it
GetAllCustomerProfileIds_partial(allProfileIds, offset, res) ==
    IF res.kind # "ok"
    THEN [state |-> "failed", res |-> res, allProfileIds |-> allProfileIds,
          offset |-> offset]
    ELSE IF Len(res.val.ids) < limit
    THEN [state |-> "done", res |-> res,
          allProfileIds |-> allProfileIds \o res.val.ids, offset |-> offset]
    ELSE [state |-> "more", res |-> res,
          allProfileIds |-> allProfileIds \o res.val.ids,
          offset |-> offset + limit]

\* part_000:199-243: the turn that requested the page at offset; state is
\* "more" (full page, go on), "done" (short page, return) or "failed"
GetAllCustomerProfileIds(allProfileIds, offset, res) ==
    IF res.kind # "ok"
    THEN [state |-> "failed", res |-> res, allProfileIds |-> <<>>,
          offset |-> offset]
    ELSE IF Len(res.val.ids) < limit
    THEN [state |-> "done", res |-> res,
          allProfileIds |-> allProfileIds \o res.val.ids, offset |-> offset]
    ELSE [state |-> "more", res |-> res,
          allProfileIds |-> allProfileIds \o res.val.ids,
          offset |-> offset + limit]

\* a faulty variant: a failing fetch is skipped and the loop goes on
GetAllCustomerProfiles_skipping(ids, idx, profiles, res) ==
    IF idx = Len(ids)
    THEN [state |-> "done", res |-> Ok(res.sent, res.val),
          profiles |-> IF res.kind = "ok" THEN Append(profiles, res.val.profile)
                       ELSE profiles,
          idx |-> idx]
    ELSE [state |-> "more", res |-> res,
          profiles |-> IF res.kind = "ok" THEN Append(profiles, res.val.profile)
                       ELSE profiles,
          idx |-> idx + 1]

\* a faulty variant: only the first id's profile is fetched
GetAllCustomerProfiles_firstOnly(ids, idx, profiles, res) ==
    IF res.kind # "ok"
    THEN [state |-> "failed", res |-> res, profiles |-> <<>>, idx |-> idx]
    ELSE [state |-> "done", res |-> res,
          profiles |-> Append(profiles, res.val.profile), idx |-> idx]

\* part_000:252-262: the turn that fetched the profile of ids[idx]
GetAllCustomerProfiles(ids, idx, profiles, res) ==
    IF res.kind # "ok"
    THEN [state |-> "failed", res |-> res, profiles |-> <<>>, idx |-> idx]
    ELSE IF idx = Len(ids)
    THEN [state |-> "done", res |-> res,
          profiles |-> Append(profiles, res.val.profile), idx |-> idx]
    ELSE [state |-> "more", res |-> res,
          profiles |-> Append(profiles, res.val.profile), idx |-> idx + 1]

(***************************************************************************)
(* The order table.  The statement of main.go:372-378 rewrites every row    *)
(* whose transactionnum equals $3.                                          *)
(***************************************************************************)
\* a faulty variant: the history column is overwritten, not appended to
Exec_overwrite(table, stmt, now) ==
    [o \in DOMAIN table |->
        IF table[o].transactionnum = stmt.where
        THEN [transactionnum |-> stmt.transactionnum,
              authorizenet_results |-> <<stmt.results>>,
              authorizenet_ts |-> now]
        ELSE table[o]]

Exec(table, stmt, now) ==
    [o \in DOMAIN table |->
        IF table[o].transactionnum = stmt.where
        THEN [transactionnum |-> stmt.transactionnum,
              authorizenet_results |->
                  Append(table[o].authorizenet_results, stmt.results),
              authorizenet_ts |-> now]
        ELSE table[o]]

\* the order of T1 already holds the record of its authorization
InitialTable ==
    << [transactionnum |-> "T1",
        authorizenet_results |->
            <<Marshal([NoApi EXCEPT !.is_success = TRUE, !.action = "AUTH_ONLY"])>>,
        authorizenet_ts |-> 0],
       [transactionnum |-> "T2", authorizenet_results |-> <<>>,
        authorizenet_ts |-> 0] >>

(***************************************************************************)
(* The gateway: what it may answer.                                         *)
(***************************************************************************)
Http(body) == [fail |-> "none", status |-> 200, body |-> body]

SendFail == [fail |-> "send", status |-> 0, body |-> <<>>]

OkMessage == <<[code |-> "I00001", text |-> "Successful."]>>

ErrMessage == <<[code |-> "E00027", text |-> "The transaction was unsuccessful."]>>

OkDoc(id) ==
    [wrap |-> TopLevel, resultCode |-> "Ok", message |-> OkMessage, id |-> id,
     ids |-> <<>>, profile |-> 1]

ErrDoc(messages) ==
    [wrap |-> TopLevel, resultCode |-> "Error", message |-> messages, id |-> "",
     ids |-> <<>>, profile |-> 0]

NewIds == {"N1", "N2"}

ServerReplies ==
    {SendFail, Http(<<>>), Http(<<Byte("0x7b")>>), Http(<<Json(ErrDoc(ErrMessage))>>),
     Http(<<Json(ErrDoc(NoMessages))>>)}
    \cup {Http(<<Json(OkDoc(i))>>) : i \in NewIds}

\* the ids the store holds from position offset on, at most lim of them
Slice(store, offset, lim) ==
    LET rest == store - offset + 1
        n == IF rest > lim THEN lim ELSE IF rest < 0 THEN 0 ELSE rest
    IN  [i \in 1..n |-> offset + i - 1]

PageReplies(store, sent) ==
    {Http(<<Json([wrap |-> "getCustomerProfileIdsResponse", resultCode |-> "Ok",
                  message |-> OkMessage, id |-> "",
                  ids |-> Slice(store, sent.fields.paging.offset,
                                sent.fields.paging.limit),
                  profile |-> 0])>>),
     SendFail,
     Http(<<Json([ErrDoc(ErrMessage) EXCEPT
                      !.wrap = "getCustomerProfileIdsResponse"])>>)}

ProfileReplies(sent) ==
    {Http(<<Json([OkDoc("") EXCEPT !.profile = sent.fields.customerProfileId])>>),
     SendFail, Http(<<Json(ErrDoc(ErrMessage))>>)}

\* the gateway's side of one exchange: the request it received and what
\* it answered (accepted: a clean document whose resultCode is "Ok")
Accepted(reply) ==
    /\ reply.fail = "none"
    /\ Len(reply.body) = 1
    /\ reply.body[1].k = "json"
    /\ reply.body[1].d.resultCode = "Ok"

Answered(sent, reply) ==
    [name |-> sent.name, fields |-> sent.fields, accepted |-> Accepted(reply),
     ids |-> IF Accepted(reply) THEN reply.body[1].d.ids ELSE <<>>,
     profile |-> IF Accepted(reply) THEN reply.body[1].d.profile ELSE 0]

(***************************************************************************)
(* Requests.                                                                *)
(***************************************************************************)
ZeroIn ==
    [bodyOk |-> TRUE, profileId |-> "", paymentProfileId |-> "", amount |-> "",
     invoiceNumber |-> "", description |-> "", transactionType |-> "",
     refTransId |-> "", validationMode |-> ""]

Malformed == [ZeroIn EXCEPT !.bodyOk = FALSE]

\* profile id, payment-profile id and amount: all given, or one left out
Required ==
    {[ZeroIn EXCEPT !.profileId = "P", !.paymentProfileId = "PP", !.amount = "10.00"],
     [ZeroIn EXCEPT !.paymentProfileId = "PP", !.amount = "10.00"],
     [ZeroIn EXCEPT !.profileId = "P", !.amount = "10.00"],
     [ZeroIn EXCEPT !.profileId = "P", !.paymentProfileId = "PP"]}

InputsOf(handler) ==
    CASE handler = "capturePriorAuthTransactionHandler" ->
             {Malformed} \cup
             {[ZeroIn EXCEPT !.refTransId = r, !.amount = a] :
                  r \in {"", "T1", "T9"}, a \in {"", "10.00"}}
      [] handler = "chargeCustomerProfileHandler" ->
             {Malformed} \cup
             {[i EXCEPT !.invoiceNumber = n, !.description = d,
                        !.transactionType = t] :
                  i \in Required, n \in {"", "INV"},
                  d \in {"", "authOnlyTransaction"},
                  t \in {"", "authOnlyTransaction", "authCaptureTransaction"}}
      [] handler = "authorizeCustomerProfileHandler" -> {Malformed} \cup Required
      [] handler = "createCustomerProfileHandler" ->
             {Malformed} \cup
             {[ZeroIn EXCEPT !.validationMode = v] : v \in {"", "liveMode", "testMode"}}
      [] handler = "updatePaymentProfileHandler" ->
             {Malformed} \cup
             {[ZeroIn EXCEPT !.profileId = a, !.paymentProfileId = b] :
                  a \in {"", "P"}, b \in {"", "PP"}}
      [] handler \in {"getCustomerProfileHandler", "getAllCustomerProfilesHandler",
                      "deleteShippingAddressHandler", "deletePaymentProfileHandler"} ->
             {ZeroIn}
      [] OTHER -> {Malformed, ZeroIn}

Methods == {"GET", "POST", "PUT", "DELETE"}

Paths == {Routes[i].path : i \in 1..Len(Routes)}

Slots == {1, 2}

\* no client function is being applied on its own
NoCall ==
    [fn |-> "", reply |-> SendFail, pc |-> "off",
     out |-> [sent |-> NoEnvelope, kind |-> "none", err |-> NoErr,
              val |-> NilVal, resp |-> ZeroDoc]]

Idle ==
    [pc |-> "idle", method |-> "", path |-> "", route |-> Routes[1], segs |-> <<>>,
     in |-> ZeroIn, reply |-> SendFail, gwCalls |-> 0, res |-> NoRes,
     stmts |-> NoStmt, dbErr |-> FALSE, resp |-> NoResp,
     allProfileIds |-> <<>>, offset |-> 0, pages |-> <<>>, idx |-> 0,
     profiles |-> <<>>, fetches |-> <<>>]


(***************************************************************************)
(* Actions of the server.                                                   *)
(***************************************************************************)
\* the request as the router hands it to its handler
Routed(m, p, route, in) ==
    [Idle EXCEPT !.method = m, !.path = p, !.route = route,
                 !.segs = [i \in 1..Len(route.names) |-> i], !.in = in]

\* the handler has run up to its client call, or has answered without one
Started(q, out) ==
    IF q.route.handler = "getAllCustomerProfilesHandler"
    THEN [q EXCEPT !.pc = "ids", !.offset = firstOffset]
    ELSE IF out.called THEN [q EXCEPT !.pc = "call"]
    ELSE [q EXCEPT !.pc = "done", !.resp = out.resp]

\* the server accepts a request, routes it and runs the handler up to its
\* first client call
Receive(s) ==
    /\ served < MaxReqs
    /\ req[s].pc = "idle"
    /\ \E m \in Methods, p \in Paths :
         /\ Routable(m, p)
         /\ \E in \in InputsOf(Dispatch(m, p).handler) :
              req' = [req EXCEPT ![s] =
                         Started(Routed(m, p, Dispatch(m, p), in),
                                 IF Dispatch(m, p).handler =
                                        "getAllCustomerProfilesHandler"
                                 THEN Rejected(NoResp)
                                 ELSE Handle(client, config,
                                             Routed(m, p, Dispatch(m, p), in),
                                             SendFail, FALSE))]
    /\ served' = served + 1
    /\ UNCHANGED <<db, gwStore, config, client, call>>

\* the client call has returned: the handler answers or, after a capture,
\* goes on to the database
Called(q, reply, out) ==
    [q EXCEPT !.reply = reply, !.gwCalls = @ + 1, !.res = out.res,
              !.pc = IF out.stmts = NoStmt THEN "done" ELSE "db",
              !.resp = IF out.stmts = NoStmt THEN out.resp ELSE NoResp]

\* the handler's client call: the gateway answers
CallGateway(s) ==
    /\ req[s].pc = "call"
    /\ \E reply \in ServerReplies :
         req' = [req EXCEPT ![s] =
                    Called(req[s], reply,
                           Handle(client, config, req[s], reply, FALSE))]
    /\ UNCHANGED <<db, gwStore, served, config, client, call>>

\* variant of Executed: a failed write sends the handler back to the capture
Executed_retry(q, dbErr, out) ==
    [q EXCEPT !.stmts = out.stmts, !.dbErr = dbErr, !.resp = out.resp,
              !.pc = IF dbErr THEN "call" ELSE "done"]

\* variant of Executed: the update is run a second time
Executed_twice(q, dbErr, out) ==
    [q EXCEPT !.stmts = out.stmts \o out.stmts, !.dbErr = dbErr,
              !.resp = out.resp, !.pc = "done"]

\* db.Exec has returned
Executed(q, dbErr, out) ==
    [q EXCEPT !.stmts = out.stmts, !.dbErr = dbErr, !.resp = out.resp,
              !.pc = "done"]

\* app.db.Exec of the capture handler, and the answer that follows it
DbExec(s) ==
    /\ req[s].pc = "db"
    /\ \E dbErr \in BOOLEAN :
         req' = [req EXCEPT ![s] =
                    Executed(req[s], dbErr,
                             Handle(client, config, req[s], req[s].reply, dbErr))]
    /\ db' = IF req'[s].dbErr THEN db ELSE Exec(db, req'[s].stmts[1], served)
    /\ UNCHANGED <<gwStore, served, config, client, call>>

\* the request for the page at the current offset
PageRequest(q) ==
    GetCustomerProfileIdsPage(client, limit, q.offset, SendFail).sent

\* a page request has returned: t is the turn of the loop it completes
Paged(q, reply, sent, t) ==
    LET q1 == [q EXCEPT !.reply = reply, !.gwCalls = @ + 1, !.res = t.res,
                        !.pages = Append(@, Answered(sent, reply)),
                        !.allProfileIds = t.allProfileIds, !.offset = t.offset]
    IN  CASE t.state = "more" -> q1
          [] t.state = "failed" ->
                 [q1 EXCEPT !.pc = "done",
                            !.resp = getAllCustomerProfilesHandler(t.res)]
          [] t.state = "done" /\ Len(t.allProfileIds) = 0 ->
                 [q1 EXCEPT !.pc = "done",
                            !.resp = getAllCustomerProfilesHandler(
                                         Ok(sent, NilVal))]
          [] OTHER -> [q1 EXCEPT !.pc = "profiles", !.idx = 1]

\* GET /customer-profiles: one page request of GetAllCustomerProfileIds
CallIdsPage(s) ==
    /\ req[s].pc = "ids"
    /\ \E reply \in PageReplies(gwStore, PageRequest(req[s])) :
         req' = [req EXCEPT ![s] =
                    Paged(req[s], reply, PageRequest(req[s]),
                          GetAllCustomerProfileIds(
                              req[s].allProfileIds, req[s].offset,
                              GetCustomerProfileIdsPage(client, limit,
                                                        req[s].offset, reply)))]
    /\ UNCHANGED <<db, gwStore, served, config, client, call>>

\* the request for the profile of the current id
ProfileRequest(q) ==
    GetCustomerProfile(client, q.allProfileIds[q.idx], SendFail).sent

\* a profile fetch has returned: t is the turn of the loop it completes
Fetched(q, reply, sent, t) ==
    LET q1 == [q EXCEPT !.reply = reply, !.gwCalls = @ + 1, !.res = t.res,
                        !.profiles = t.profiles, !.idx = t.idx,
                        !.fetches = Append(@, Answered(sent, reply))]
    IN  CASE t.state = "more" -> q1
          [] t.state = "failed" ->
                 [q1 EXCEPT !.pc = "done",
                            !.resp = getAllCustomerProfilesHandler(t.res)]
          [] OTHER ->
                 [q1 EXCEPT !.pc = "done",
                            !.resp = getAllCustomerProfilesHandler(
                                         Ok(sent, [NilVal EXCEPT
                                                     !.profiles = t.profiles]))]

\* GET /customer-profiles: one profile fetch of GetAllCustomerProfiles
CallGetProfile(s) ==
    /\ req[s].pc = "profiles"
    /\ \E reply \in ProfileReplies(ProfileRequest(req[s])) :
         req' = [req EXCEPT ![s] =
                    Fetched(req[s], reply, ProfileRequest(req[s]),
                            GetAllCustomerProfiles(
                                req[s].allProfileIds, req[s].idx, req[s].profiles,
                                GetCustomerProfile(client,
                                                   req[s].allProfileIds[req[s].idx],
                                                   reply)))]
    /\ UNCHANGED <<db, gwStore, served, config, client, call>>

\* the handler has returned and its goroutine ends
Return(s) ==
    /\ req[s].pc = "done"
    /\ req' = [req EXCEPT ![s] = Idle]
    /\ UNCHANGED <<db, gwStore, served, config, client, call>>

Envs == {"production", "sandbox"}

\* the server runs: requests are served one after the other
Init ==
    /\ req = [s \in Slots |-> Idle]
    /\ db = InitialTable
    /\ gwStore \in 0..MaxSmallStore
    /\ served = 0
    /\ \E e \in Envs : config = main_config(e) /\ client = main_client(e)
    /\ call = NoCall

Next ==
    \/ Receive(1)
    \/ CallGateway(1)
    \/ DbExec(1)
    \/ CallIdsPage(1)
    \/ CallGetProfile(1)
    \/ Return(1)

Spec == Init /\ [][Next]_vars

(***************************************************************************)
(* The oldest client (part_000:687-1021).  Requests are not wrapped, and    *)
(* two of the operations read the first message without looking at the      *)
(* length of the list.                                                      *)
(***************************************************************************)
CreateCustomerProfile_old(c, profile, reply) ==
    LET request == Envelope("", c, [profile |-> profile])
        r == makeRequest_old(reply, TopLevel)
        response == r.resp
    IN  IF r.err # NoErr THEN Fail(request, r.err)
        ELSE IF response.resultCode # "OK"
        THEN IF Len(response.message) = 0 THEN Fault(request)
             ELSE Fail(request, <<"API error: ", response.message[1].text>>)
        ELSE Ok(request, [NilVal EXCEPT !.id = response.id])

GetCustomerProfile_old(c, profileID, reply) ==
    LET request == Envelope("", c, [customerProfileId |-> profileID])
        r == makeRequest_old(reply, TopLevel)
        response == r.resp
    IN  IF r.err # NoErr THEN Fail(request, r.err)
        ELSE IF response.resultCode # "OK"
        THEN IF Len(response.message) = 0 THEN Fault(request)
             ELSE Fail(request, <<"API error: ", response.message[1].text>>)
        ELSE Ok(request, [NilVal EXCEPT !.profile = response.profile])

ChargeCustomerProfile_old(c, profileID, paymentProfileID, amount, reply) ==
    LET request ==
            Envelope("", c,
                     [transactionType |-> "authCaptureTransaction",
                      amount |-> amount, customerProfileId |-> profileID,
                      paymentProfileId |-> paymentProfileID])
        r == makeRequest_old(reply, TopLevel)
        response == r.resp
    IN  IF r.err # NoErr THEN Fail(request, r.err)
        ELSE IF response.resultCode # "Ok"
        THEN IF Len(response.message) > 0
             THEN Fail(request, <<"API error: ", response.message[1].text>>)
             ELSE Fail(request, <<"API error: unknown error">>)
        ELSE Ok(request, [NilVal EXCEPT !.id = response.id])

UpdateCustomerProfile_old(c, profileID, email, description, reply) ==
    LET request ==
            Envelope("", c,
                     [customerProfileId |-> profileID, email |-> email,
                      description |-> description])
        r == makeRequest_old(reply, TopLevel)
        response == r.resp
    IN  IF r.err # NoErr THEN Fail(request, r.err)
        ELSE IF response.resultCode # "OK"
        THEN IF Len(response.message) > 0
             THEN Fail(request, <<"API error: ", response.message[1].text>>)
             ELSE Fail(request, <<"API error: unknown error">>)
        ELSE Ok(request, NilVal)

AddShippingAddress_old(c, profileID, address, reply) ==
    LET request ==
            Envelope("", c, [customerProfileId |-> profileID, address |-> address])
        r == makeRequest_old(reply, TopLevel)
        response == r.resp
    IN  IF r.err # NoErr THEN Fail(request, r.err)
        ELSE IF response.resultCode # "OK"
        THEN IF Len(response.message) > 0
             THEN Fail(request, <<"API error: ", response.message[1].text>>)
             ELSE Fail(request, <<"API error: unknown error">>)
        ELSE Ok(request, [NilVal EXCEPT !.id = response.id])

AddPaymentProfile_old(c, profileID, creditCard, reply) ==
    LET request ==
            Envelope("", c,
                     [customerProfileId |-> profileID, creditCard |-> creditCard])
        r == makeRequest_old(reply, TopLevel)
        response == r.resp
    IN  IF r.err # NoErr THEN Fail(request, r.err)
        ELSE IF response.resultCode # "OK"
        THEN IF Len(response.message) > 0
             THEN Fail(request, <<"API error: ", response.message[1].text>>)
             ELSE Fail(request, <<"API error: unknown error">>)
        ELSE Ok(request, [NilVal EXCEPT !.id = response.id])

(***************************************************************************)
(* One client function applied to one gateway reply.                        *)
(***************************************************************************)
\* the outcome of makeRequest as a result: the decoded response is kept
Decoded(r) ==
    [sent |-> NoEnvelope, kind |-> IF r.err = NoErr THEN "ok" ELSE "error",
     err |-> r.err, val |-> NilVal, resp |-> r.resp]

Returned(res) ==
    [sent |-> res.sent, kind |-> res.kind, err |-> res.err, val |-> res.val,
     resp |-> ZeroDoc]

MakeRequestFns == {"makeRequest", "makeRequest_pkg", "makeRequest_old"}

CurrentOps ==
    {"CreateCustomerProfile", "GetCustomerProfile", "GetCustomerProfileIdsPage",
     "ChargeCustomerProfile", "AuthorizeCustomerProfile",
     "CapturePriorAuthTransaction", "UpdateCustomerProfile", "AddShippingAddress",
     "DeleteShippingAddress", "UpdateBillingAddress", "AddPaymentProfile"}

OldOps ==
    {"CreateCustomerProfile_old", "GetCustomerProfile_old",
     "ChargeCustomerProfile_old", "UpdateCustomerProfile_old",
     "AddShippingAddress_old", "AddPaymentProfile_old"}

ClientFns == MakeRequestFns \cup CurrentOps \cup OldOps

\* the key under which the function reads the response envelope
WrapOf(fn) ==
    IF fn = "GetCustomerProfileIdsPage" THEN "getCustomerProfileIdsResponse"
    ELSE TopLevel

Apply(fn, c, reply) ==
    CASE fn = "makeRequest" -> Decoded(makeRequest(reply, TopLevel))
      [] fn = "makeRequest_pkg" -> Decoded(makeRequest_pkg(reply, TopLevel))
      [] fn = "makeRequest_old" -> Decoded(makeRequest_old(reply, TopLevel))
      [] fn = "CreateCustomerProfile" ->
             Returned(CreateCustomerProfile(c, "profile", "testMode", reply))
      [] fn = "GetCustomerProfile" -> Returned(GetCustomerProfile(c, 7, reply))
      [] fn = "GetCustomerProfileIdsPage" ->
             Returned(GetCustomerProfileIdsPage(c, limit, firstOffset, reply))
      [] fn = "ChargeCustomerProfile" ->
             Returned(ChargeCustomerProfile(c, "P", "PP", "10.00", "", "", "",
                                            reply))
      [] fn = "AuthorizeCustomerProfile" ->
             Returned(AuthorizeCustomerProfile(c, "P", "PP", "10.00", reply))
      [] fn = "CapturePriorAuthTransaction" ->
             Returned(CapturePriorAuthTransaction(c, "T1", "10.00", reply))
      [] fn = "UpdateCustomerProfile" ->
             Returned(UpdateCustomerProfile(c, 7, "email", "", reply))
      [] fn = "AddShippingAddress" ->
             Returned(AddShippingAddress(c, 7, "address", reply))
      [] fn = "DeleteShippingAddress" ->
             Returned(DeleteShippingAddress(c, 7, 8, reply))
      [] fn = "UpdateBillingAddress" ->
             Returned(UpdateBillingAddress(c, 7, 8, "address", reply))
      [] fn = "AddPaymentProfile" ->
             Returned(AddPaymentProfile(c, 7, "card", reply))
      [] fn = "CreateCustomerProfile_old" ->
             Returned(CreateCustomerProfile_old(c, "profile", reply))
      [] fn = "GetCustomerProfile_old" ->
             Returned(GetCustomerProfile_old(c, 7, reply))
      [] fn = "ChargeCustomerProfile_old" ->
             Returned(ChargeCustomerProfile_old(c, "P", "PP", "10.00", reply))
      [] fn = "UpdateCustomerProfile_old" ->
             Returned(UpdateCustomerProfile_old(c, 7, "email", "", reply))
      [] fn = "AddShippingAddress_old" ->
             Returned(AddShippingAddress_old(c, 7, "address", reply))
      [] fn = "AddPaymentProfile_old" ->
             Returned(AddPaymentProfile_old(c, 7, "card", reply))

\* response bodies: byte chunks, then a document or nothing, then a tail
Chunks == {<<Byte("0x20")>>, <<Byte("0x0b")>>, bom, <<Byte("0x7b")>>}

RECURSIVE Prefixes(_)
Prefixes(n) ==
    IF n = 0 THEN {<<>>}
    ELSE Prefixes(n - 1) \cup {p \o ch : p \in Prefixes(n - 1), ch \in Chunks}

TwoMessages ==
    <<[code |-> "E00003", text |-> "First."], [code |-> "E00013", text |-> "Second."]>>

ClientDocs ==
    {[wrap |-> TopLevel, resultCode |-> rc, message |-> ms, id |-> "ID",
      ids |-> <<7>>, profile |-> 7] :
         rc \in {"Ok", "OK", "Error", ""},
         ms \in {NoMessages, ErrMessage, TwoMessages}}
    \cup {[wrap |-> "getCustomerProfileIdsResponse", resultCode |-> rc,
           message |-> ms, id |-> "ID", ids |-> <<7>>, profile |-> 7] :
         rc \in {"Ok", "Error"}, ms \in {NoMessages, ErrMessage}}

ClientBodies ==
    {pre \o core \o post :
         pre \in Prefixes(MaxChunks),
         core \in {<<>>} \cup {<<Json(d)>> : d \in ClientDocs},
         post \in {<<>>, <<Byte("0x20")>>}}

ReadFail == [fail |-> "read", status |-> 200, body |-> <<>>]

ClientReplies ==
    {SendFail, ReadFail}
    \cup {[fail |-> "none", status |-> st, body |-> b] :
              st \in {200, 500}, b \in ClientBodies}

ClientCall ==
    /\ call.pc = "ready"
    /\ call' = [call EXCEPT !.pc = "returned",
                            !.out = Apply(call.fn, client, call.reply)]
    /\ UNCHANGED <<req, db, gwStore, served, config, client>>

\* the client alone: one function, one reply
InitClient ==
    /\ req = [s \in Slots |-> Idle]
    /\ db = InitialTable
    /\ gwStore = 0
    /\ served = 0
    /\ config = main_config("sandbox")
    /\ client = main_client("sandbox")
    /\ call \in {[fn |-> f, reply |-> r, pc |-> "ready", out |-> Returned(NoRes)] :
                    f \in ClientFns, r \in ClientReplies}

NextClient == ClientCall

SpecClient == InitClient /\ [][NextClient]_vars

(***************************************************************************)
(* GET /customer-profiles alone, against gateway stores that fill whole     *)
(* pages.                                                                   *)
(***************************************************************************)
ListStores ==
    {0, 1} \cup {k * limit + d : k \in 1..MaxFullPages, d \in {0, 1}}

ListRequest ==
    [Idle EXCEPT !.method = "GET", !.path = "/customer-profiles",
                 !.route = Dispatch("GET", "/customer-profiles"),
                 !.pc = "ids", !.offset = firstOffset]

InitList ==
    /\ req = [s \in Slots |-> IF s = 1 THEN ListRequest ELSE Idle]
    /\ db = InitialTable
    /\ gwStore \in ListStores
    /\ served = 1
    /\ config = main_config("sandbox")
    /\ client = main_client("sandbox")
    /\ call = NoCall

NextList ==
    \/ CallIdsPage(1)
    \/ CallGetProfile(1)

SpecList == InitList /\ [][NextList]_vars

(***************************************************************************)
(* Properties.                                                              *)
(***************************************************************************)
Range(f) == {f[i] : i \in DOMAIN f}

Active(q) == q.pc # "idle"

IsCapture(q) == Active(q) /\ q.route.handler = "capturePriorAuthTransactionHandler"

IsListAll(q) == Active(q) /\ q.route.handler = "getAllCustomerProfilesHandler"

\* what the gateway said went wrong, when it did not accept the request
ErrorText(reply) ==
    IF reply.fail # "none" THEN "transport"
    ELSE reply.body[1].d.message[1].text

\* the ids of the pages the gateway served, in the order it served them
RECURSIVE ConcatIds(_)
ConcatIds(P) ==
    IF P = <<>> THEN <<>>
    ELSE ConcatIds(SubSeq(P, 1, Len(P) - 1)) \o P[Len(P)].ids

CaptureWriteBack ==
    [][\A s \in Slots :
         (IsCapture(req[s]) /\ req[s].pc = "db" /\ req'[s].pc = "done"
              /\ ~req'[s].dbErr) =>
            LET q == req'[s]
                newId == q.reply.body[1].d.id
            IN  /\ Accepted(q.reply)
                /\ Len(q.stmts) = 1
                /\ q.stmts[1].where = q.in.refTransId
                /\ q.stmts[1].transactionnum = newId
                /\ \A o \in DOMAIN db :
                     IF db[o].transactionnum = q.in.refTransId
                     THEN /\ db'[o].transactionnum = newId
                          /\ db'[o].authorizenet_results =
                                 Append(db[o].authorizenet_results,
                                        q.stmts[1].results)
                     ELSE db'[o] = db[o]
                /\ q.resp.status = 201
                /\ q.resp.api.is_success
                /\ q.resp.api.transaction.id = newId
                /\ q.stmts[1].results = Marshal(q.resp.api)]_vars

CaptureWriteBackReached ==
    \E s \in Slots :
        /\ IsCapture(req[s]) /\ req[s].pc = "done"
        /\ Accepted(req[s].reply) /\ ~req[s].dbErr
        /\ req[s].in.refTransId = "T1"
        /\ req[s].resp.status = 201
        /\ db[1].transactionnum = req[s].reply.body[1].d.id
        /\ Len(db[1].authorizenet_results) = 2
        /\ db[2] = InitialTable[2]

TransactionHandlers ==
    {"chargeCustomerProfileHandler", "authorizeCustomerProfileHandler",
     "capturePriorAuthTransactionHandler"}

\* the body cannot be decoded, or a field the endpoint requires is missing
Invalid(q) ==
    \/ ~q.in.bodyOk
    \/ /\ q.route.handler \in {"chargeCustomerProfileHandler",
                               "authorizeCustomerProfileHandler"}
       /\ (q.in.profileId = "" \/ q.in.paymentProfileId = "" \/ q.in.amount = "")
    \/ /\ q.route.handler = "capturePriorAuthTransactionHandler"
       /\ q.in.refTransId = ""

\* C4: a request to POST /transactions, /transactions/authorize or
\* /transactions/capture whose body is malformed or lacks a required field
\* is answered with a 4xx status and no call to the gateway is made for it.
InvalidRequestRejected ==
    \A s \in Slots :
        LET q == req[s]
        IN  (Active(q) /\ q.route.handler \in TransactionHandlers /\ Invalid(q)) =>
                /\ q.pc = "done"
                /\ q.gwCalls = 0
                /\ q.resp.status \in 400..499

\* a charge without a profile id that the gateway was asked to process
InvalidChargeSent ==
    \E s \in Slots :
        /\ Active(req[s]) /\ req[s].route.handler = "chargeCustomerProfileHandler"
        /\ req[s].in.bodyOk /\ req[s].in.profileId = ""
        /\ req[s].pc = "done" /\ req[s].gwCalls = 1
        /\ req[s].resp.status = 201

OrderTableWrittenOnlyByCapture ==
    [][(db' # db \/ \E s \in Slots : req'[s].stmts # req[s].stmts
                                      /\ req'[s].stmts # NoStmt) =>
          \E s \in Slots :
              /\ IsCapture(req[s]) /\ req[s].pc = "db"
              /\ Accepted(req[s].reply)
              /\ req[s].in.bodyOk /\ req[s].in.refTransId # ""
              /\ \A t \in Slots \ {s} : req'[t] = req[t]]_vars

\* a capture the gateway refused, answered after an earlier capture was
\* written back: the table still holds what the earlier capture wrote
RefusedCaptureReached ==
    \E s \in Slots :
        /\ IsCapture(req[s]) /\ req[s].pc = "done"
        /\ req[s].gwCalls = 1 /\ ~Accepted(req[s].reply)
        /\ req[s].stmts = NoStmt
        /\ db # InitialTable

\* C7: GetAllCustomerProfileIds asks for pages of 1000 ids, the first at
\* offset 1 and each next one 1000 further; it asks for a next page exactly
\* when the page it got held 1000 ids, and at the first shorter page it
\* returns the ids of all the pages, in the order the pages were served.
PagesFetchedInOrder ==
    \A s \in Slots :
        LET q == req[s]
            P == q.pages
            n == Len(P)
        IN  IsListAll(q) =>
              /\ \A i \in 1..n :
                     /\ P[i].name = "getCustomerProfileIdsRequest"
                     /\ P[i].fields.paging.limit = 1000
                     /\ P[i].fields.paging.offset = 1 + (i - 1) * 1000
              /\ \A i \in 1..(n - 1) : P[i].accepted /\ Len(P[i].ids) = 1000
              /\ q.pc = "ids" => (n = 0 \/ (P[n].accepted /\ Len(P[n].ids) = 1000))
              /\ (n > 0 /\ P[n].accepted /\ Len(P[n].ids) = 1000) => q.pc = "ids"
              /\ (n > 0 /\ P[n].accepted /\ Len(P[n].ids) < 1000) =>
                     /\ q.pc \in {"profiles", "done"}
                     /\ q.allProfileIds = ConcatIds(P)
                     /\ q.allProfileIds = [i \in 1..gwStore |-> i]

\* a full page and then a page of one id were fetched and both are returned
TwoPagesReached ==
    \E s \in Slots :
        /\ IsListAll(req[s]) /\ req[s].pc = "profiles"
        /\ Len(req[s].pages) = 2
        /\ Len(req[s].pages[1].ids) = 1000 /\ Len(req[s].pages[2].ids) = 1
        /\ req[s].pages[2].fields.paging.offset = 1001
        /\ Len(req[s].allProfileIds) = 1001

\* C8: when the gateway does not accept a page request of
\* GetAllCustomerProfileIds (transport failure or a resultCode other than
\* "Ok"), that request is the last one of the call: the call returns an error
\* that carries what the gateway reported and no ids, no profile is fetched,
\* and the request is answered with a server error.
FailedPageAbortsCall ==
    \A s \in Slots :
        LET q == req[s]
            P == q.pages
            n == Len(P)
        IN  IsListAll(q) =>
              \A i \in 1..n :
                  ~P[i].accepted =>
                      /\ i = n
                      /\ q.pc = "done"
                      /\ q.res.kind = "error"
                      /\ ErrorText(q.reply) \in Range(q.res.err)
                      /\ q.res.val.ids = <<>>
                      /\ q.allProfileIds = <<>>
                      /\ q.fetches = <<>>
                      /\ q.gwCalls = n
                      /\ q.resp.status = 500
                      /\ q.resp.text = q.res.err

\* the second page failed after a full first page
SecondPageFailedReached ==
    \E s \in Slots :
        /\ IsListAll(req[s]) /\ req[s].pc = "done"
        /\ Len(req[s].pages) = 2
        /\ req[s].pages[1].accepted /\ Len(req[s].pages[1].ids) = 1000
        /\ ~req[s].pages[2].accepted
        /\ req[s].reply.fail = "none"
        /\ req[s].allProfileIds = <<>>

\* C9: GetAllCustomerProfiles fetches a profile only once all ids are
\* fetched, and fetches the profiles of the ids one by one in the order of
\* the ids.  A fetch the gateway does not accept is the last call: the error
\* is returned with no profiles.  When all fetches are accepted the answer
\* holds the profile of each id, in the order of the ids.
ProfilesFetchedInOrder ==
    \A s \in Slots :
        LET q == req[s]
            P == q.pages
            n == Len(P)
            F == q.fetches
            m == Len(F)
        IN  IsListAll(q) =>
              /\ m > 0 =>
                     /\ n > 0 /\ P[n].accepted /\ Len(P[n].ids) < 1000
                     /\ q.allProfileIds = ConcatIds(P)
              /\ q.gwCalls = n + m
              /\ m <= Len(q.allProfileIds)
              /\ \A j \in 1..m :
                     /\ F[j].name = "getCustomerProfileRequest"
                     /\ F[j].fields.customerProfileId = q.allProfileIds[j]
              /\ \A j \in 1..(m - 1) : F[j].accepted
              /\ (m > 0 /\ ~F[m].accepted) =>
                     /\ q.pc = "done"
                     /\ q.res.kind = "error"
                     /\ ErrorText(q.reply) \in Range(q.res.err)
                     /\ q.res.val.profiles = <<>>
                     /\ q.profiles = <<>>
                     /\ q.resp.status = 500
              /\ (m > 0 /\ F[m].accepted /\ m < Len(q.allProfileIds)) =>
                     q.pc = "profiles"
              /\ (q.pc = "done" /\ q.resp.status = 200) =>
                     /\ m = Len(q.allProfileIds)
                     /\ Len(q.resp.data.profiles) = m
                     /\ \A j \in 1..m : q.resp.data.profiles[j] = F[j].profile

\* the third profile fetch failed after two that succeeded
ThirdFetchFailedReached ==
    \E s \in Slots :
        /\ IsListAll(req[s]) /\ req[s].pc = "done"
        /\ Len(req[s].fetches) = 3
        /\ req[s].fetches[1].accepted /\ req[s].fetches[2].accepted
        /\ ~req[s].fetches[3].accepted
        /\ Len(req[s].allProfileIds) > 3
        /\ req[s].resp.status = 500

\* the gateway answered with exactly one document, under the key the
\* operation reads
CleanAnswer(c) ==
    /\ c.reply.fail = "none"
    /\ Len(c.reply.body) = 1
    /\ c.reply.body[1].k = "json"
    /\ c.reply.body[1].d.wrap = WrapOf(c.fn)

\* C3: an operation of the client returns success only when the resultCode
\* of the gateway's answer is "Ok"; on any other resultCode it returns an
\* error, which carries the text of the first message when there is one.
ResultCodeDecidesOutcome ==
    (call.pc = "returned" /\ call.fn \in CurrentOps /\ CleanAnswer(call)) =>
        LET d == call.reply.body[1].d
        IN  /\ call.out.kind = "ok" => d.resultCode = "Ok"
            /\ d.resultCode # "Ok" =>
                   /\ call.out.kind = "error"
                   /\ call.out.err # NoErr
                   /\ d.message # NoMessages =>
                          d.message[1].text \in Range(call.out.err)

\* DeleteShippingAddress returned success on an answer whose resultCode is
\* "Error"
DeleteRefusedReturnsSuccess ==
    /\ call.pc = "returned" /\ call.fn = "DeleteShippingAddress"
    /\ CleanAnswer(call)
    /\ call.reply.body[1].d.resultCode = "Error"
    /\ call.out.kind = "ok"

\* every byte of the body is white space (an empty body included)
Blank(body) == \A i \in DOMAIN body : IsGoSpace(body[i])

\* C10: makeRequest, in part_000 and in authorizenet.go, returns no error and
\* leaves the response zero-valued when the gateway's body is empty or holds
\* white space only.
EmptyBodyTolerated ==
    (call.pc = "returned" /\ call.fn \in {"makeRequest", "makeRequest_pkg"}
         /\ call.reply.fail = "none" /\ Blank(call.reply.body)) =>
        /\ call.out.kind = "ok"
        /\ call.out.err = NoErr
        /\ call.out.resp = ZeroDoc

\* makeRequest of authorizenet.go returned a decode error on an empty body
EmptyBodyDecodeError ==
    /\ call.pc = "returned" /\ call.fn = "makeRequest_pkg"
    /\ call.reply.fail = "none" /\ call.reply.body = <<>>
    /\ call.out.kind = "error"
    /\ call.out.err[1] = "failed to unmarshal response: "

\* ---------------------------------------------------------------------
\* makeRequest and the byte-order mark

\* the reply with a byte-order mark put in front of its body
WithBom(reply) == [reply EXCEPT !.body = bom \o reply.body]

\* C11: for every response body B, makeRequest given the byte-order mark
\* followed by B decodes the same response and ends with the same
\* error/no-error outcome as makeRequest given B alone; stated of the
\* makeRequest of part_000 (current and oldest) and of authorizenet.go.
BomPrefixIgnored ==
    (call.pc = "returned" /\ call.fn \in MakeRequestFns
         /\ call.reply.fail = "none") =>
        /\ Apply(call.fn, client, WithBom(call.reply)).kind = call.out.kind
        /\ Apply(call.fn, client, WithBom(call.reply)).resp = call.out.resp

\* the current makeRequest returned a decode error on a body that holds the
\* byte-order mark alone, where the empty body B is answered with no error
BomOnlyBodyRejected ==
    /\ call.pc = "returned" /\ call.fn = "makeRequest"
    /\ call.reply.fail = "none" /\ call.reply.body = bom
    /\ call.out.kind = "error"
    /\ call.out.err[1] = "failed to unmarshal response: "
    /\ makeRequest([call.reply EXCEPT !.body = <<>>], TopLevel).err = NoErr

\* ---------------------------------------------------------------------
\* failures of the gateway call as seen by the caller of the client

\* a body that is not blank and holds no document, or holds a stray brace
MalformedJson(body) ==
    /\ ~Blank(body)
    /\ \/ \A i \in DOMAIN body : body[i].k # "json"
       \/ \E i \in DOMAIN body : body[i] = Byte("0x7b")

\* a status outside 200..299
Non2xx(status) == status < 200 \/ status > 299

\* C12: a transport error, a non-2xx response of the gateway whose body still
\* decodes, and a malformed JSON body are each returned to the caller of the
\* client operation as an error, never as a success.
GatewayFailureIsError ==
    (call.pc = "returned" /\ call.fn \in CurrentOps) =>
        /\ call.reply.fail # "none" => call.out.kind = "error"
        /\ (CleanAnswer(call) /\ Non2xx(call.reply.status)) =>
               call.out.kind = "error"
        /\ (call.reply.fail = "none" /\ MalformedJson(call.reply.body)) =>
               call.out.kind = "error"

\* CreateCustomerProfile returned an id and no error on an HTTP 500 answer
\* whose body is a document with resultCode "Ok"
ServerErrorStatusReturnsSuccess ==
    /\ call.pc = "returned" /\ call.fn = "CreateCustomerProfile"
    /\ CleanAnswer(call)
    /\ call.reply.status = StatusInternalServerError
    /\ call.reply.body[1].d.resultCode = "Ok"
    /\ call.out.kind = "ok"
    /\ call.out.val.id = call.reply.body[1].d.id

\* ---------------------------------------------------------------------
\* no retry, no compensation

CarriesDetail(resp) ==
    \/ resp.kind = "map" /\ resp.key # "message" /\ resp.data.id # ""
    \/ resp.kind = "data"
    \/ resp.kind \in {"api", "bytes"} /\ resp.api.hasTransaction

\* the answer's body is the text of the client's error
CarriesErrorText(resp, err) ==
    /\ err # NoErr
    /\ \/ resp.kind = "text" /\ resp.text = err
       \/ resp.kind = "api" /\ resp.api.message = err /\ ~resp.api.is_success

\* C14: for every endpoint, when the gateway call failed (transport error or
\* a resultCode other than "Ok") the answer is a 500 whose body carries the
\* client's error text, and when the gateway accepted the request the answer
\* is a 201 or a 200 with a JSON envelope that holds the identifier or the
\* transaction detail.
GatewayOutcomeDecidesAnswer ==
    \A s \in Slots :
        (req[s].pc = "done" /\ req[s].gwCalls > 0) =>
            /\ ~Accepted(req[s].reply) =>
                   /\ req[s].resp.status = StatusInternalServerError
                   /\ CarriesErrorText(req[s].resp, req[s].res.err)
            /\ Accepted(req[s].reply) =>
                   /\ req[s].resp.status \in {StatusOK, StatusCreated}
                   /\ CarriesDetail(req[s].resp)

\* DELETE of a shipping address answered 200 with an empty body although the
\* gateway answered resultCode "Error"
DeleteRefusedAnswersOk ==
    \E s \in Slots :
        /\ req[s].pc = "done" /\ req[s].gwCalls = 1
        /\ req[s].route.handler = "deleteShippingAddressHandler"
        /\ req[s].reply = Http(<<Json(ErrDoc(ErrMessage))>>)
        /\ req[s].resp = EmptyResponse(StatusOK)

\* ---------------------------------------------------------------------
\* the order of the capture handler's steps

\* C15: in the capture handler the gateway capture call, the construction of
\* the response envelope, the one database update keyed on the request's
\* refTransId and the HTTP answer happen in this order and each at most once
\* per request; the update is never run before the gateway accepted the
\* capture.
CaptureStepsInOrder ==
    [][\A s \in Slots :
          IsCapture(req'[s]) =>
              /\ req'[s].gwCalls # req[s].gwCalls =>
                     /\ req[s].pc = "call" /\ req[s].gwCalls = 0
                     /\ req'[s].gwCalls = 1
                     /\ req[s].stmts = NoStmt /\ req[s].resp = NoResp
              /\ req'[s].stmts # req[s].stmts =>
                     /\ req[s].pc = "db" /\ req[s].gwCalls = 1
                     /\ Accepted(req[s].reply) /\ req[s].res.kind = "ok"
                     /\ req[s].stmts = NoStmt /\ req[s].resp = NoResp
                     /\ Len(req'[s].stmts) = 1
                     /\ req'[s].stmts[1].where = req[s].in.refTransId
                     /\ req'[s].stmts[1].results =
                            Marshal(CaptureResponse(req[s].res))
              /\ req'[s].resp # req[s].resp =>
                     /\ req[s].resp = NoResp /\ req'[s].pc = "done"
                     /\ req'[s].gwCalls = 0 => req'[s].stmts = NoStmt
                     /\ req'[s].resp.status = StatusCreated =>
                            /\ Len(req'[s].stmts) = 1 /\ ~req'[s].dbErr
                            /\ req'[s].resp.api =
                                   req'[s].stmts[1].results.json]_vars

\* a capture of a transaction no row holds has gone through its call, its
\* update and its 201 answer
CaptureRanAllSteps ==
    \E s \in Slots :
        /\ IsCapture(req[s]) /\ req[s].pc = "done"
        /\ req[s].in.refTransId = "T9"
        /\ req[s].gwCalls = 1 /\ Len(req[s].stmts) = 1
        /\ req[s].stmts[1].where = "T9"
        /\ req[s].resp.status = StatusCreated

\* ---------------------------------------------------------------------
\* the answer to a failed write-back against the answers to a failed capture

\* answers of the gateway whose message text is taken from the answer the
\* handler gives to a failed write-back
ForgedReplies ==
    {Http(<<Json(ErrDoc(<<[code |-> "E00027", text |-> t]>>))>>) :
         t \in Range(CriticalMessage)}

\* when the capture failed, what the handler answered is not resp
AnswersOtherwise(out, resp) == out.res.kind = "error" => out.resp # resp

\* C16: the answer to a capture that the gateway accepted and whose write-back
\* failed differs, in status or in body, from every answer the capture
\* handler gives to a transport error or to an error reported by the gateway.
ReconciliationFailureDistinct ==
    \A s \in Slots :
        (IsCapture(req[s]) /\ req[s].pc = "done" /\ req[s].dbErr) =>
            \A reply \in ServerReplies \cup ForgedReplies :
                AnswersOtherwise(
                    capturePriorAuthTransactionHandler(client, config, req[s],
                                                       reply, FALSE),
                    req[s].resp)

\* a failed write-back was answered with a 500 that is no success and holds
\* no transaction, as the answer to a refused capture is
WriteFailureAnswered ==
    \E s \in Slots :
        /\ IsCapture(req[s]) /\ req[s].pc = "done" /\ req[s].dbErr
        /\ req[s].resp.status = StatusInternalServerError
        /\ req[s].resp.kind = "api"
        /\ ~req[s].resp.api.is_success /\ ~req[s].resp.api.hasTransaction
        /\ capturePriorAuthTransactionHandler(
               client, config, req[s], SendFail, FALSE).resp.status
               = req[s].resp.status

\* ---------------------------------------------------------------------
\* the success sentinel

\* the operations that read their response where fn reads it
SameWrap(fn) ==
    {g \in CurrentOps \cup OldOps : WrapOf(g) = WrapOf(fn)}

\* C17: every operation of the client compares resultCode with the same
\* literal, exactly and with regard to case: an answer whose resultCode is
\* "Ok" or "OK" is classified by every operation as it is by any other.
SentinelSharedByOperations ==
    (call.pc = "returned" /\ call.fn \in CurrentOps \cup OldOps
         /\ CleanAnswer(call)
         /\ call.reply.body[1].d.resultCode \in {"Ok", "OK"}) =>
        \A g \in SameWrap(call.fn) :
            (Apply(g, client, call.reply).kind = "ok") = (call.out.kind = "ok")

\* on the same answer with resultCode "Ok" the oldest CreateCustomerProfile
\* returned no success where the oldest ChargeCustomerProfile returns one
OldestOperationsDisagree ==
    /\ call.pc = "returned" /\ call.fn = "CreateCustomerProfile_old"
    /\ CleanAnswer(call)
    /\ call.reply.body[1].d.resultCode = "Ok"
    /\ call.out.kind # "ok"
    /\ Apply("ChargeCustomerProfile_old", client, call.reply).kind = "ok"

(***************************************************************************)
(* Requests served concurrently: net/http runs each handler on a goroutine  *)
(* of its own, so the steps of two requests interleave freely.              *)
(***************************************************************************)
StoreConc == 1

InitConc ==
    /\ req = [s \in Slots |-> Idle]
    /\ db = InitialTable
    /\ gwStore = StoreConc
    /\ served = MaxReqs - Cardinality(Slots)
    /\ config = main_config("production")
    /\ client = main_client("production")
    /\ call = NoCall

NextConc ==
    \E s \in Slots :
        \/ Receive(s)
        \/ CallGateway(s)
        \/ DbExec(s)
        \/ CallIdsPage(s)
        \/ CallGetProfile(s)
        \/ Return(s)

SpecConc == InitConc /\ [][NextConc]_vars

\* ---------------------------------------------------------------------
\* reading a profile twice

\* the request is a GET of one customer profile
IsGetProfile(q) == Active(q) /\ q.route.handler = "getCustomerProfileHandler"

\* the request has had an answer to its client call
HasCalled(q) == q.gwCalls = 1 /\ q.pc = "done"

CredentialFixedAndCarried ==
    /\ [](/\ config = main_config("production")
          /\ client = NewAPIClient(config.LoginID, config.TransactionKey,
                                   config.Endpoint)
          /\ \A s \in Slots :
                 req[s].gwCalls > 0 =>
                     /\ req[s].res.sent.merchantAuthentication = client.Auth
                     /\ req[s].res.sent.endpoint = client.Endpoint
                     /\ client.Auth.Name # "" /\ client.Auth.TransactionKey # "")
    /\ [][/\ client' = client /\ config' = config /\ call' = call
          /\ \A s, t \in Slots :
                 (s # t /\ req'[s] # req[s]) => req'[t] = req[t]]_vars

\* a capture and a creation of a profile are in flight together and each has
\* sent its request with the credential
TwoRequestsInFlight ==
    /\ IsCapture(req[1]) /\ req[1].pc = "db" /\ req[1].gwCalls = 1
    /\ req[2].route.handler = "createCustomerProfileHandler"
    /\ req[2].pc = "done" /\ req[2].gwCalls = 1
    /\ \A s \in Slots : req[s].res.sent.merchantAuthentication = client.Auth

(***************************************************************************)
(* The body of POST /customer-profiles, byte by byte.  Only the text of one *)
(* JSON string of the body is told apart: a sequence of the characters      *)
(* backslash, apostrophe, double quote and a letter, standing between the   *)
(* quotes that open and close the string.                                   *)
(***************************************************************************)
MaxBody == 4

BodyChars == {"\\", "'", "\"", "a"}

RECURSIVE BodyTexts(_)
BodyTexts(n) ==
    IF n = 0 THEN {<<>>}
    ELSE BodyTexts(n - 1) \cup {Append(t, ch) : t \in BodyTexts(n - 1), ch \in BodyChars}

\* main.go:174, strings.Replace(bodyStr, "\\'", "'", -1): every occurrence,
\* found from left to right, none overlapping
RECURSIVE Replace(_)
Replace(bodyStr) ==
    IF Len(bodyStr) < 2 THEN bodyStr
    ELSE IF bodyStr[1] = "\\" /\ bodyStr[2] = "'"
    THEN <<"'">> \o Replace(SubSeq(bodyStr, 3, Len(bodyStr)))
    ELSE <<bodyStr[1]>> \o Replace(Tail(bodyStr))

\* the scanner of encoding/json on the text of a string: a backslash starts
\* an escape and takes the next character, which must be one JSON names (of
\* BodyChars: backslash and double quote, and the apostrophe only when
\* lenient); a double quote outside an escape ends the string early
RECURSIVE ValidString(_, _)
ValidString(text, lenient) ==
    IF text = <<>> THEN TRUE
    ELSE IF text[1] = "\"" THEN FALSE
    ELSE IF text[1] = "\\"
    THEN /\ Len(text) >= 2
         /\ \/ text[2] \in {"\\", "\""}
            \/ lenient /\ text[2] = "'"
         /\ ValidString(SubSeq(text, 3, Len(text)), lenient)
    ELSE ValidString(Tail(text), lenient)

\* the request of the create-profile handler whose body holds text
CreateRequest(text) ==
    Routed("POST", "/customer-profiles", Dispatch("POST", "/customer-profiles"),
           [ZeroIn EXCEPT !.bodyOk = ValidString(text, FALSE)])

\* main.go:166-185: the handler reads the body, replaces and decodes
ReadBody ==
    /\ call.pc = "ready"
    /\ call' = [call EXCEPT
                   !.pc = "decoded",
                   !.bodyStr = Replace(call.body),
                   !.out = createCustomerProfileHandler(
                               client, config, CreateRequest(Replace(call.body)),
                               SendFail)]
    /\ UNCHANGED <<req, db, gwStore, served, config, client>>

InitBody ==
    /\ req = [s \in Slots |-> Idle]
    /\ db = InitialTable
    /\ gwStore = 0
    /\ served = 0
    /\ config = main_config("sandbox")
    /\ client = main_client("sandbox")
    /\ call \in {[fn |-> "createCustomerProfileHandler", body |-> b,
                  bodyStr |-> <<>>, pc |-> "ready", out |-> Rejected(NoResp)] :
                     b \in BodyTexts(MaxBody)}

NextBody == ReadBody

SpecBody == InitBody /\ [][NextBody]_vars

\* ---------------------------------------------------------------------
\* backslash-apostrophe in the body of a create-profile request

\* the places of text where a backslash stands right before an apostrophe
Occurrences(text) ==
    {i \in 1..(Len(text) - 1) : text[i] = "\\" /\ text[i + 1] = "'"}

\* C20: the create-profile handler replaces every backslash-apostrophe
\* sequence of the body by an apostrophe before it decodes: a body that is
\* valid JSON but for such sequences is decoded, and a body that holds no
\* such sequence reaches the decoder unchanged.
SanitizedBodyDecodes ==
    call.pc = "decoded" =>
        /\ Len(call.bodyStr) = Len(call.body) - Cardinality(Occurrences(call.body))
        /\ ValidString(call.body, TRUE) => call.out.called
        /\ Occurrences(call.body) = {} => call.bodyStr = call.body

\* a body whose string holds an escaped backslash and then an apostrophe,
\* which is valid JSON, was answered 400 "Invalid request body"
EscapedBackslashBodyRejected ==
    /\ call.pc = "decoded"
    /\ call.body = <<"a", "\\", "\\", "'">>
    /\ ValidString(call.body, FALSE)
    /\ call.bodyStr = <<"a", "\\", "'">>
    /\ ~call.out.called
    /\ call.out.resp = InvalidBody

\* ---------------------------------------------------------------------
\* the transaction type of a charge

IsCharge(q) == Active(q) /\ q.route.handler = "chargeCustomerProfileHandler"

\* the transaction type the request asks for
AskedType(in) ==
    IF in.transactionType = "authOnlyTransaction"
    THEN "authOnlyTransaction" ELSE "authCaptureTransaction"

\* C21: for the charge endpoint the transaction type sent to the gateway is
\* the action reported in the success answer: both are authOnlyTransaction
\* when the request's transactionType is "authOnlyTransaction" and
\* authCaptureTransaction otherwise, whatever the request's description.
ChargeTypeMatchesAction ==
    \A s \in Slots :
        (IsCharge(req[s]) /\ req[s].gwCalls = 1) =>
            /\ req[s].res.sent.fields.transactionType = AskedType(req[s].in)
            /\ (req[s].pc = "done" /\ req[s].res.kind = "ok") =>
                   /\ req[s].resp.api.action = AskedType(req[s].in)
                   /\ req[s].resp.api.action =
                          req[s].res.sent.fields.transactionType

\* a charge that asked for authOnlyTransaction was sent to the gateway as
\* authCaptureTransaction and answered 201 with action authOnlyTransaction
AuthOnlyChargeCaptured ==
    \E s \in Slots :
        /\ IsCharge(req[s]) /\ req[s].pc = "done" /\ req[s].gwCalls = 1
        /\ req[s].in.transactionType = "authOnlyTransaction"
        /\ req[s].in.description = ""
        /\ req[s].res.sent.fields.transactionType = "authCaptureTransaction"
        /\ req[s].resp.status = StatusCreated
        /\ req[s].resp.api.action = "authOnlyTransaction"

\* ---------------------------------------------------------------------
\* a capture whose update matches no row

\* C22: the capture handler answers 201 only when its update changed a row
\* of the order table: when no row holds refTransId as its transaction id,
\* as on a second capture of a transaction whose key the first rewrote, it
\* does not report a recorded success.
CaptureSuccessNeedsRow ==
    [][\A s \in Slots :
          (/\ IsCapture(req[s]) /\ req[s].pc = "db"
           /\ req'[s].pc = "done"
           /\ req'[s].resp.status = StatusCreated) =>
              /\ \E i \in DOMAIN db :
                     db[i].transactionnum = req[s].in.refTransId
              /\ db' # db]_vars

\* a capture of T9, which no row holds, was answered 201 with a success body
\* and the order table is as it was
UnmatchedCaptureAnswered201 ==
    \E s \in Slots :
        /\ IsCapture(req[s]) /\ req[s].pc = "done" /\ ~req[s].dbErr
        /\ req[s].in.refTransId = "T9"
        /\ \A i \in DOMAIN db : db[i].transactionnum # "T9"
        /\ db = InitialTable
        /\ req[s].resp.status = StatusCreated
        /\ req[s].resp.api.is_success

\* ---------------------------------------------------------------------
\* a refusal that carries no message

\* C23: no operation of the client faults on an answer that is no success
\* and whose message list is empty; every operation that compares resultCode
\* looks at the length of the list before it reads the first message and
\* returns an ordinary error.
EmptyMessageListNoFault ==
    (call.pc = "returned" /\ call.fn \in CurrentOps \cup OldOps) =>
        /\ call.out.kind # "panic"
        /\ (/\ CleanAnswer(call)
            /\ call.reply.body[1].d.resultCode \notin {"Ok", "OK"}
            /\ call.reply.body[1].d.message = NoMessages
            /\ call.fn # "DeleteShippingAddress") =>
               call.out.kind = "error" /\ call.out.err # NoErr

\* the oldest GetCustomerProfile read the first message of an empty list on
\* an answer with resultCode "Error"
OldestGetFaulted ==
    /\ call.pc = "returned" /\ call.fn = "GetCustomerProfile_old"
    /\ CleanAnswer(call)
    /\ call.reply.body[1].d.resultCode = "Error"
    /\ call.reply.body[1].d.message = NoMessages
    /\ call.out.kind = "panic"

\* ---------------------------------------------------------------------
\* an empty answer of the gateway, seen from the operations

\* C24: when the body of the gateway's answer is empty or white space only,
\* every operation of the client that compares resultCode returns an error,
\* the one for a refusal without message and not a decode error, since the
\* zero-valued response has an empty resultCode; DeleteShippingAddress alone
\* returns success.
EmptyBodyIsErrorButForDelete ==
    (call.pc = "returned" /\ call.fn \in CurrentOps
         /\ call.reply.fail = "none" /\ Blank(call.reply.body)) =>
        IF call.fn = "DeleteShippingAddress"
        THEN call.out.kind = "ok" /\ call.out.err = NoErr
        ELSE /\ call.out.kind = "error"
             /\ call.out.err # NoErr
             /\ call.out.err[1] # "failed to unmarshal response: "
             /\ call.out.val = NilVal

\* CapturePriorAuthTransaction returned an error on a body of white space
BlankBodyFailedCapture ==
    /\ call.pc = "returned" /\ call.fn = "CapturePriorAuthTransaction"
    /\ call.reply.fail = "none"
    /\ call.reply.body = <<Byte("0x20"), Byte("0x0b")>>
    /\ call.out.kind = "error"
    /\ call.out.err = <<"API error: unknown error">>

\* ---------------------------------------------------------------------
\* a body that is a byte-order mark and nothing else

\* the body is one byte-order mark, with or without white space around it
BomOnly(body) == TrimSpace(body) = bom

\* C25: makeRequest treats a body that holds a byte-order mark alone, with
\* or without white space around it, like an empty body: it returns no
\* decode error and leaves the response zero-valued.
BomOnlyBodyTolerated ==
    (call.pc = "returned" /\ call.fn = "makeRequest"
         /\ call.reply.fail = "none" /\ BomOnly(call.reply.body)) =>
        /\ call.out.kind = "ok"
        /\ call.out.err = NoErr
        /\ call.out.resp = ZeroDoc

\* makeRequest returned a decode error on a body of a space, the mark and a
\* space
PaddedBomDecodeError ==
    /\ call.pc = "returned" /\ call.fn = "makeRequest"
    /\ call.reply.fail = "none"
    /\ call.reply.body = <<Byte("0x20")>> \o bom \o <<Byte("0x20")>>
    /\ call.out.kind = "error"
    /\ call.out.err[1] = "failed to unmarshal response: "

(***************************************************************************)
(* The list-all call with a gateway that answers: client.Do returns, with  *)
(* a response or with an error, for every page request that is sent.        *)
(***************************************************************************)
SpecListLive == InitList /\ [][NextList]_vars /\ WF_vars(CallIdsPage(1))

\* ---------------------------------------------------------------------
\* the end of the paging loop

\* the pages answered so far were all accepted
AllAccepted(P) == \A i \in DOMAIN P : P[i].accepted

\* C26: GetAllCustomerProfileIds ends when, and only when, the gateway
\* answers a page request with a failure or with fewer than 1000 ids: a full
\* page keeps the loop going, and once the gateway has answered the loop is
\* left.  For a store of N ids served in full pages it makes N \div 1000 + 1
\* requests, so that a store of exactly 1000 costs a second request, which
\* is answered with an empty page.
IdsLoopEnds ==
    /\ [][\A s \in Slots :
            (IsListAll(req[s]) /\ req[s].pc = "ids"
                 /\ req'[s].gwCalls = req[s].gwCalls + 1) =>
                LET a == req'[s].pages[Len(req'[s].pages)]
                IN  (req'[s].pc = "ids") = (a.accepted /\ Len(a.ids) = limit)]_vars
    /\ [](\A s \in Slots :
            (IsListAll(req[s]) /\ req[s].pc # "ids" /\ req[s].pages # <<>>
                 /\ AllAccepted(req[s].pages)) =>
                Len(req[s].pages) = (gwStore \div limit) + 1)
    /\ \A s \in Slots :
         (IsListAll(req[s]) /\ req[s].pc = "ids") ~> (req[s].pc # "ids")

\* a store of exactly 1000 ids was listed with two requests, the second one
\* answered with an empty page
ExactMultipleCostsExtraCall ==
    \E s \in Slots :
        /\ IsListAll(req[s]) /\ req[s].pc = "profiles"
        /\ gwStore = limit
        /\ Len(req[s].pages) = 2
        /\ Len(req[s].pages[1].ids) = limit
        /\ req[s].pages[2].accepted /\ req[s].pages[2].ids = <<>>
        /\ Len(req[s].allProfileIds) = limit

\* ---------------------------------------------------------------------
\* two captures of one transaction, served together

\* both requests are captures of T1 that the gateway accepted, and both
\* handlers have answered
BothCapturesDone ==
    \A s \in Slots :
        /\ IsCapture(req[s]) /\ req[s].pc = "done"
        /\ req[s].in.refTransId = "T1"
        /\ Accepted(req[s].reply)

\* each request made its own gateway call and ran its own update
OwnCallOwnUpdate ==
    \A s \in Slots :
        /\ req[s].gwCalls = 1
        /\ Len(req[s].stmts) = 1
        /\ req[s].stmts[1].where = "T1"
        /\ req[s].stmts[1].transactionnum = req[s].res.val.id

\* the row that held T1 holds the id answered to a request that got a 201
RowHoldsAnswered201 ==
    \E s \in Slots :
        /\ req[s].resp.status = StatusCreated
        /\ db[1].transactionnum = req[s].resp.api.transaction.id

EnvValues == {"production", "sandbox", "", "Production", "live"}

InitEnv ==
    /\ req = [s \in Slots |-> Idle]
    /\ db = InitialTable
    /\ gwStore = StoreConc
    /\ served = 0
    /\ \E e \in EnvValues :
         /\ config = main_config(e)
         /\ client = main_client(e)
         /\ call = [fn |-> "main", authnetEnv |-> e, pc |-> "off"]

SpecEnv == InitEnv /\ [][Next]_vars

\* ---------------------------------------------------------------------
\* validation mode and endpoint of a profile creation

IsCreate(q) == Active(q) /\ q.route.handler = "createCustomerProfileHandler"

\* C28: the create-profile handler sends the gateway the validationMode of
\* the request when it is not empty and the configured default otherwise;
\* the default is liveMode exactly when AUTHORIZENET_ENVIRONMENT is
\* "production" and testMode for every other value, and the request goes to
\* the production endpoint in that same case and to the sandbox otherwise.
ValidationModeChosen ==
    \A s \in Slots :
        (IsCreate(req[s]) /\ req[s].gwCalls = 1) =>
            /\ req[s].res.sent.name = "createCustomerProfileRequest"
            /\ req[s].res.sent.fields.validationMode =
                   IF req[s].in.validationMode # "" THEN req[s].in.validationMode
                   ELSE IF call.authnetEnv = "production" THEN "liveMode"
                   ELSE "testMode"
            /\ req[s].res.sent.endpoint =
                   IF call.authnetEnv = "production" THEN ProductionEndpoint
                   ELSE SandboxEndpoint

\* started with the flag "Production", a creation that names no mode was
\* sent to the sandbox in testMode
CapitalisedFlagIsSandbox ==
    \E s \in Slots :
        /\ IsCreate(req[s]) /\ req[s].gwCalls = 1
        /\ call.authnetEnv = "Production"
        /\ req[s].in.validationMode = ""
        /\ req[s].res.sent.fields.validationMode = "testMode"
        /\ req[s].res.sent.endpoint = SandboxEndpoint

\* ---------------------------------------------------------------------
\* handlers no request reaches

\* the handlers main registers
Registered == {Routes[i].handler : i \in 1..Len(Routes)}

\* some request is dispatched to handler h
Dispatched(h) ==
    \E m \in Methods, p \in Paths : Routable(m, p) /\ Dispatch(m, p).handler = h

\* C29: every handler main registers is reached by some request; of the two
\* PUT routes registered on the path /customer-profiles/{..}/payment-
\* profiles/{..}, some request is dispatched to
\* updateCustomerPaymentProfileHandler and not only to
\* updateBillingAddressHandler.
EveryHandlerDispatched ==
    /\ \A h \in Registered : Dispatched(h)
    /\ \A s \in Slots : Active(req[s]) => req[s].route.handler \in Registered

\* a PUT that the route of updateCustomerPaymentProfileHandler matches was
\* handled by updateBillingAddressHandler, registered before it
PaymentProfilePutShadowed ==
    \E s \in Slots, i \in 1..Len(Routes) :
        /\ Active(req[s]) /\ req[s].gwCalls = 1
        /\ Routes[i].handler = "updateCustomerPaymentProfileHandler"
        /\ Matches(i, req[s].method, req[s].path)
        /\ req[s].route.handler = "updateBillingAddressHandler"
        /\ req[s].res.sent.name = "updateCustomerPaymentProfileRequest"

====
